---- MODULE Spec2Model ----
(***************************************************************************)
(* State-machine model of the buzzer server: the GameStateManager of       *)
(* server/game-state.ts (session registry, player/team directory, round    *)
(* state machine), the socket gateway that calls it and broadcasts its     *)
(* results, and the session replica each client keeps in useSocket.ts.     *)
(***************************************************************************)
EXTENDS Integers, Sequences, FiniteSets, TLC

\* ------------------------------------------------------------------ bounds
MaxTime == 2            \* Date.now() ranges over 1..MaxTime
MaxQuestions == 1       \* startRound is taken while questionNumber < MaxQuestions
MaxInbox == 2           \* undelivered events per client connection
MaxRounds == 2          \* rounds of a session in the specification of successive rounds

\* ------------------------------------------------------- identifiers, null
NULL == "null"          \* null / undefined of an id or a name
NoTime == 0             \* null of a timestamp (Date.now() is never 0)

SessionIds == {"S1"}
HostSocket == "h1"
PlayerIds == {"p1", "p2", "p3"}
TeamIds == {"t1", "t2"}
SocketOf(p) == CASE p = "p1" -> "k1" [] p = "p2" -> "k2" [] OTHER -> "k3"
NameOf(p) == CASE p = "p1" -> "Ann" [] p = "p2" -> "Bob" [] OTHER -> "Cy"
SocketIds == {"k1", "k2", "k3", "k9"}    \* k9 belongs to no player

TEAM_COLORS == <<"#FF2D55", "#007AFF", "#34C759", "#FF9500",
                 "#AF52DE", "#FFCC00", "#00C7BE", "#FF375F">>

\* ------------------------------------------------------------ error texts
PLAYER_NOT_FOUND == "Player not found"
BUZZER_INACTIVE == "Buzzer is not active"
DUPLICATE_BUZZ == "Already buzzed"
RATE_LIMITED == "Too fast"
TEAM_ALREADY_BUZZED == "Team already buzzed"
BUZZER_LOCKED == "Buzzer is locked"
ACCEPTED == "entry"          \* processBuzz returned the BuzzEntry

\* ------------------------------------------------------------------ state
VARIABLES
  sessions,              \* GameStateManager.sessions: sessionId -> GameSession
  playerToSession,       \* GameStateManager.playerToSession
  socketToPlayer,        \* GameStateManager.socketToPlayer
  playerBuzzTimestamps,  \* GameStateManager.playerBuzzTimestamps
  now,                   \* the value Date.now() returns
  acceptedLog,           \* players whose buzz was accepted since the round state was replaced,
                         \* in the order of acceptance; kept until an entry is removed
  removedSince,          \* TRUE when a pass, skip or kick has removed a queue entry since the
                         \* round state was replaced
  lastAcceptedAt,        \* per player, the time of its last accepted buzz
  room,                  \* gateway: sockets subscribed to session:<id>
  inbox,                 \* gateway: per socket, the events emitted to it and not yet handled
  replica                \* client: per socket, the session copy the hook holds

serverVars == <<sessions, playerToSession, socketToPlayer, playerBuzzTimestamps>>
observerVars == <<acceptedLog, removedSince, lastAcceptedAt>>
clientVars == <<room, inbox, replica>>
vars == <<sessions, playerToSession, socketToPlayer, playerBuzzTimestamps, now,
          acceptedLog, removedSince, lastAcceptedAt, room, inbox, replica>>

\* ---------------------------------------------------------------- helpers
MapSet(m, k, v) == [x \in (DOMAIN m) \cup {k} |-> IF x = k THEN v ELSE m[x]]
MapDelete(m, k) == [x \in (DOMAIN m) \ {k} |-> m[x]]
EmptyMap == [x \in {} |-> NULL]

DEFAULT_SETTINGS ==
  [teamModeEnabled |-> FALSE, oneBuzzPerTeam |-> FALSE, allowLateBuzzes |-> TRUE,
   showQueueToPlayers |-> TRUE, maxPlayersPerSession |-> 50, buzzCooldownMs |-> 100]

\* { ...settings, ...patch }
MergeSettings(settings, patch) ==
  [k \in DOMAIN settings |-> IF k \in DOMAIN patch THEN patch[k] ELSE settings[k]]

createInitialRoundState ==
  [status |-> "waiting", questionNumber |-> 0, startedAt |-> NoTime,
   lockedAt |-> NoTime, activePlayerId |-> NULL, buzzQueue |-> <<>>]

NewPlayer(p, t) ==
  [id |-> p, socketId |-> SocketOf(p), displayName |-> NameOf(p),
   teamId |-> NULL, isConnected |-> TRUE, lastSeen |-> t]

NewTeam(id, name, index) ==
  [id |-> id, name |-> name, color |-> TEAM_COLORS[(index % Len(TEAM_COLORS)) + 1],
   score |-> 0]

\* b => b.playerId !== playerId
RemoveFromQueue(queue, playerId) ==
  SelectSeq(queue, LAMBDA b : b.playerId # playerId)

\* forEach((b, i) => b.position = i + 1)
Renumber(queue) ==
  [i \in 1..Len(queue) |-> [queue[i] EXCEPT !.position = i]]

\* Mutant: only the head of the queue is compared
alreadyBuzzed_headOnly(queue, playerId) ==
  Len(queue) > 0 /\ queue[1].playerId = playerId

\* buzzQueue.some(b => b.playerId === player.id)
alreadyBuzzed(queue, playerId) ==
  \E i \in 1..Len(queue) : queue[i].playerId = playerId

\* Mutant: only the active player's team is compared
teamAlreadyBuzzed_headOnly(queue, teamId) ==
  Len(queue) > 0 /\ queue[1].teamId = teamId

\* buzzQueue.some(b => b.teamId === player.teamId)
teamAlreadyBuzzed(queue, teamId) ==
  \E i \in 1..Len(queue) : queue[i].teamId = teamId

\* Index of the first team with this id (teams.find / findIndex), 0 when there is none
TeamIndex(teams, teamId) ==
  IF \E i \in 1..Len(teams) : teams[i].id = teamId
  THEN CHOOSE j \in 1..Len(teams) :
         /\ teams[j].id = teamId
         /\ \A k \in 1..(j - 1) : teams[k].id # teamId
  ELSE 0

\* session.teams.find(t => t.id === teamId), as a sequence of at most one team
FindTeam(teams, teamId) ==
  IF TeamIndex(teams, teamId) = 0 THEN <<>> ELSE <<teams[TeamIndex(teams, teamId)]>>

\* buzzQueue[0]?.playerId ?? null
HeadPlayer(queue) == IF Len(queue) > 0 THEN queue[1].playerId ELSE NULL

\* Mutant: the phase is kept when no entry is left
advanceQueue_keepsPhase(round) ==
  [round EXCEPT !.activePlayerId = HeadPlayer(round.buzzQueue)]

advanceQueue(round) ==
  LET next == HeadPlayer(round.buzzQueue)
  IN [round EXCEPT !.activePlayerId = next,
                   !.status = IF next = NULL THEN "waiting" ELSE @]

getPlayerBySocketId(socketId) ==
  IF socketId \notin DOMAIN socketToPlayer THEN [found |-> FALSE]
  ELSE LET playerId == socketToPlayer[socketId] IN
    IF playerId \notin DOMAIN playerToSession THEN [found |-> FALSE]
    ELSE LET sessionId == playerToSession[playerId] IN
      IF sessionId \notin DOMAIN sessions THEN [found |-> FALSE]
      ELSE IF playerId \notin DOMAIN sessions[sessionId].players THEN [found |-> FALSE]
      ELSE [found |-> TRUE, playerId |-> playerId, sessionId |-> sessionId]

\* ------------------------------------------------------- round management
\* Mutant: the new round keeps the queue and the active player of the old one
StartedRound_keepsQueue(round, t) ==
  [status |-> "open", questionNumber |-> round.questionNumber + 1, startedAt |-> t,
   lockedAt |-> NoTime, activePlayerId |-> round.activePlayerId,
   buzzQueue |-> round.buzzQueue]

\* The round startRound installs
StartedRound(round, t) ==
  [status |-> "open", questionNumber |-> round.questionNumber + 1, startedAt |-> t,
   lockedAt |-> NoTime, activePlayerId |-> NULL, buzzQueue |-> <<>>]

\* Mutant: the reset also clears the question counter
ResetRoundState_zeroCounter(round) ==
  [status |-> "waiting", questionNumber |-> 0, startedAt |-> NoTime,
   lockedAt |-> NoTime, activePlayerId |-> NULL, buzzQueue |-> <<>>]

\* The round resetRound installs
ResetRoundState(round) ==
  [status |-> "waiting", questionNumber |-> round.questionNumber, startedAt |-> NoTime,
   lockedAt |-> NoTime, activePlayerId |-> NULL, buzzQueue |-> <<>>]

\* Mutant: the ended round starts counting questions again
EndedRound_zeroCounter(round) ==
  [status |-> "ended", questionNumber |-> 0, startedAt |-> NoTime,
   lockedAt |-> NoTime, activePlayerId |-> NULL, buzzQueue |-> <<>>]

\* The round markCorrect installs
EndedRound(round) ==
  [status |-> "ended", questionNumber |-> round.questionNumber, startedAt |-> NoTime,
   lockedAt |-> NoTime, activePlayerId |-> NULL, buzzQueue |-> <<>>]

startRound(sessionId, t) ==
  IF sessionId \notin DOMAIN sessions
  THEN UNCHANGED <<serverVars, observerVars>>
  ELSE /\ sessions' = [sessions EXCEPT ![sessionId].round = StartedRound(@, t)]
       /\ acceptedLog' = <<>>
       /\ removedSince' = FALSE
       /\ UNCHANGED <<playerToSession, socketToPlayer, playerBuzzTimestamps, lastAcceptedAt>>

resetRound(sessionId) ==
  IF sessionId \notin DOMAIN sessions
  THEN UNCHANGED <<serverVars, observerVars>>
  ELSE /\ sessions' = [sessions EXCEPT ![sessionId].round = ResetRoundState(@)]
       /\ acceptedLog' = <<>>
       /\ removedSince' = FALSE
       /\ UNCHANGED <<playerToSession, socketToPlayer, playerBuzzTimestamps, lastAcceptedAt>>

\* ------------------------------------------------------------ buzzing logic
\* lastBuzz && now - lastBuzz < buzzCooldownMs
RateLimited(stamps, playerId, t, cooldown) ==
  /\ playerId \in DOMAIN stamps
  /\ stamps[playerId] # 0
  /\ t - stamps[playerId] < cooldown

\* Mutant: only a waiting round is inactive
BuzzerActive_unlessWaiting(round) == round.status # "waiting"

\* !(status !== 'open' && status !== 'locked')
BuzzerActive(round) == round.status = "open" \/ round.status = "locked"

\* Mutant: late buzzes are refused only when they are allowed
LateBuzzRefused_inverted(round, settings) ==
  round.status = "locked" /\ settings.allowLateBuzzes

\* status === 'locked' && !settings.allowLateBuzzes
LateBuzzRefused(round, settings) ==
  round.status = "locked" /\ ~settings.allowLateBuzzes

\* The return statement processBuzz reaches for a resolved player
BuzzOutcome(session, player, stamps, t) ==
  LET round == session.round IN
  IF ~BuzzerActive(round) THEN BUZZER_INACTIVE
  ELSE IF alreadyBuzzed(round.buzzQueue, player.id) THEN DUPLICATE_BUZZ
  ELSE IF RateLimited(stamps, player.id, t, session.settings.buzzCooldownMs)
       THEN RATE_LIMITED
  ELSE IF /\ session.settings.oneBuzzPerTeam
          /\ player.teamId # NULL
          /\ teamAlreadyBuzzed(round.buzzQueue, player.teamId)
       THEN TEAM_ALREADY_BUZZED
  ELSE IF LateBuzzRefused(round, session.settings) THEN BUZZER_LOCKED
  ELSE ACCEPTED

\* What processBuzz(socketId) returns at time t
BuzzResult(socketId, t) ==
  LET playerData == getPlayerBySocketId(socketId) IN
  IF ~playerData.found THEN PLAYER_NOT_FOUND
  ELSE BuzzOutcome(sessions[playerData.sessionId],
                   sessions[playerData.sessionId].players[playerData.playerId],
                   playerBuzzTimestamps, t)

\* Whether the call got past the rate-limit check, to playerBuzzTimestamps.set
StampsBuzz(outcome) ==
  outcome \notin {PLAYER_NOT_FOUND, BUZZER_INACTIVE, DUPLICATE_BUZZ, RATE_LIMITED}

\* Mutant: the position is the queue length before the push (0-indexed)
NextPosition_zeroBased(queue) == Len(queue)

\* position: session.round.buzzQueue.length + 1
NextPosition(queue) == Len(queue) + 1

NewBuzzEntry(session, player, t) ==
  LET team == IF player.teamId # NULL THEN FindTeam(session.teams, player.teamId)
              ELSE <<>>
  IN [playerId |-> player.id,
      playerName |-> player.displayName,
      teamId |-> player.teamId,
      teamName |-> IF Len(team) > 0 THEN team[1].name ELSE NULL,
      teamColor |-> IF Len(team) > 0 THEN team[1].color ELSE NULL,
      timestamp |-> t,
      position |-> NextPosition(session.round.buzzQueue)]

\* Mutant: the buzzer locks whenever the queue was empty
LocksBuzzer_onEmptyQueue(round) == Len(round.buzzQueue) = 0

\* if (session.round.status === 'open')
LocksBuzzer(round) == round.status = "open"

\* buzzQueue.push(buzzEntry), then the lock on the first buzz
PushBuzz(round, entry, t) ==
  LET pushed == [round EXCEPT !.buzzQueue = Append(@, entry)]
  IN IF LocksBuzzer(round)
     THEN [pushed EXCEPT !.status = "locked", !.lockedAt = t,
                         !.activePlayerId = entry.playerId]
     ELSE pushed

processBuzz(socketId, t) ==
  LET playerData == getPlayerBySocketId(socketId) IN
  IF ~playerData.found
  THEN UNCHANGED <<serverVars, observerVars>>
  ELSE
    LET session == sessions[playerData.sessionId]
        player == session.players[playerData.playerId]
        outcome == BuzzOutcome(session, player, playerBuzzTimestamps, t)
        entry == NewBuzzEntry(session, player, t)
    IN /\ playerBuzzTimestamps' =
            IF StampsBuzz(outcome) THEN MapSet(playerBuzzTimestamps, player.id, t)
            ELSE playerBuzzTimestamps
       /\ sessions' =
            IF outcome = ACCEPTED
            THEN [sessions EXCEPT ![playerData.sessionId].round = PushBuzz(@, entry, t)]
            ELSE sessions
       /\ acceptedLog' =
            IF outcome = ACCEPTED /\ ~removedSince THEN Append(acceptedLog, player.id)
            ELSE acceptedLog
       /\ lastAcceptedAt' =
            IF outcome = ACCEPTED THEN MapSet(lastAcceptedAt, player.id, t)
            ELSE lastAcceptedAt
       /\ UNCHANGED <<playerToSession, socketToPlayer, removedSince>>

\* Mutant: the point goes to every team
ScoreAdded_everyTeam(teams, teamId, delta) ==
  [i \in 1..Len(teams) |-> [teams[i] EXCEPT !.score = @ + delta]]

\* team.score += delta on the team teams.find returns
ScoreAdded(teams, teamId, delta) ==
  LET i == TeamIndex(teams, teamId)
  IN IF i = 0 THEN teams ELSE [teams EXCEPT ![i].score = @ + delta]

\* Mutant: the result counts the buzzes behind the winner only
NewRoundResult_othersOnly(session, t) ==
  [questionNumber |-> session.round.questionNumber,
   winnerId |-> session.round.activePlayerId,
   winnerName |-> IF session.round.activePlayerId \in DOMAIN session.players
                  THEN session.players[session.round.activePlayerId].displayName
                  ELSE NULL,
   teamId |-> IF session.round.activePlayerId \in DOMAIN session.players
              THEN session.players[session.round.activePlayerId].teamId
              ELSE NULL,
   buzzCount |-> Len(session.round.buzzQueue) - 1,
   duration |-> IF session.round.startedAt # NoTime THEN t - session.round.startedAt
                ELSE 0]

\* The RoundResult markCorrect builds
NewRoundResult(session, t) ==
  LET round == session.round
      known == round.activePlayerId \in DOMAIN session.players
  IN [questionNumber |-> round.questionNumber,
      winnerId |-> round.activePlayerId,
      winnerName |-> IF known THEN session.players[round.activePlayerId].displayName
                     ELSE NULL,
      teamId |-> IF known THEN session.players[round.activePlayerId].teamId ELSE NULL,
      buzzCount |-> Len(round.buzzQueue),
      duration |-> IF round.startedAt # NoTime THEN t - round.startedAt ELSE 0]

\* What markCorrect returns: <<>> for undefined, else the one RoundResult
MarkCorrectResult(sessionId, t) ==
  IF \/ sessionId \notin DOMAIN sessions
     \/ sessions[sessionId].round.activePlayerId = NULL
  THEN <<>>
  ELSE <<NewRoundResult(sessions[sessionId], t)>>

\* Mutant: the history keeps the latest result only
MarkedCorrect_latestOnly(session, t) ==
  LET result == NewRoundResult(session, t)
  IN [session EXCEPT
        !.teams = IF result.teamId # NULL THEN ScoreAdded(@, result.teamId, 1) ELSE @,
        !.roundHistory = <<result>>,
        !.round = EndedRound(@)]

\* The session markCorrect leaves
MarkedCorrect(session, t) ==
  LET result == NewRoundResult(session, t)
  IN [session EXCEPT
        !.teams = IF result.teamId # NULL THEN ScoreAdded(@, result.teamId, 1) ELSE @,
        !.roundHistory = Append(@, result),
        !.round = EndedRound(@)]

markCorrect(sessionId, t) ==
  IF MarkCorrectResult(sessionId, t) = <<>>
  THEN UNCHANGED <<serverVars, observerVars>>
  ELSE /\ sessions' = [sessions EXCEPT ![sessionId] = MarkedCorrect(@, t)]
       /\ acceptedLog' = <<>>
       /\ removedSince' = FALSE
       /\ UNCHANGED <<playerToSession, socketToPlayer, playerBuzzTimestamps, lastAcceptedAt>>

\* Observers of a pass, skip or kick: whether it took an entry out of the queue
ObserveRemoval(sessionId) ==
  LET removed == Len(sessions'[sessionId].round.buzzQueue)
                   < Len(sessions[sessionId].round.buzzQueue)
  IN /\ removedSince' = (removedSince \/ removed)
     /\ acceptedLog' = IF removed THEN <<>> ELSE acceptedLog
     /\ UNCHANGED lastAcceptedAt

\* The round markPass leaves
PassedRound(round) ==
  LET queue == Renumber(RemoveFromQueue(round.buzzQueue, round.activePlayerId))
  IN [round EXCEPT !.buzzQueue = queue, !.activePlayerId = HeadPlayer(queue)]

\* What markPass returns: <<>> for undefined, else {passedPlayerId, newActivePlayerId}
MarkPassResult(sessionId) ==
  IF \/ sessionId \notin DOMAIN sessions
     \/ sessions[sessionId].round.activePlayerId = NULL
  THEN <<>>
  ELSE <<[passedPlayerId |-> sessions[sessionId].round.activePlayerId,
          newActivePlayerId |-> PassedRound(sessions[sessionId].round).activePlayerId]>>

markPass(sessionId) ==
  IF MarkPassResult(sessionId) = <<>>
  THEN UNCHANGED <<serverVars, observerVars>>
  ELSE /\ sessions' = [sessions EXCEPT ![sessionId].round = PassedRound(@)]
       /\ ObserveRemoval(sessionId)
       /\ UNCHANGED <<playerToSession, socketToPlayer, playerBuzzTimestamps>>

\* The round skipPlayer leaves
SkippedRound(round, playerId) ==
  LET skipped == [round EXCEPT
                    !.buzzQueue = Renumber(RemoveFromQueue(@, playerId))]
  IN IF round.activePlayerId = playerId THEN advanceQueue(skipped) ELSE skipped

skipPlayer(sessionId, playerId) ==
  IF sessionId \notin DOMAIN sessions
  THEN UNCHANGED <<serverVars, observerVars>>
  ELSE /\ sessions' = [sessions EXCEPT ![sessionId].round = SkippedRound(@, playerId)]
       /\ ObserveRemoval(sessionId)
       /\ UNCHANGED <<playerToSession, socketToPlayer, playerBuzzTimestamps>>

\* ------------------------------------------------------- player management
\* Mutant: the removed player's entry stays in the queue
KickedRound_keepsEntry(round, playerId) ==
  IF round.activePlayerId = playerId THEN advanceQueue(round) ELSE round

\* The round removePlayer leaves
KickedRound(round, playerId) ==
  LET kicked == [round EXCEPT !.buzzQueue = RemoveFromQueue(@, playerId)]
  IN IF round.activePlayerId = playerId THEN advanceQueue(kicked) ELSE kicked

removePlayer(sessionId, playerId) ==
  IF sessionId \notin DOMAIN sessions
  THEN UNCHANGED <<serverVars, observerVars>>
  ELSE
    LET session == sessions[sessionId] IN
    /\ socketToPlayer' =
         IF playerId \in DOMAIN session.players
         THEN MapDelete(socketToPlayer, session.players[playerId].socketId)
         ELSE socketToPlayer
    /\ playerToSession' = MapDelete(playerToSession, playerId)
    /\ sessions' = [sessions EXCEPT
                      ![sessionId].players = MapDelete(@, playerId),
                      ![sessionId].round = KickedRound(@, playerId)]
    /\ ObserveRemoval(sessionId)
    /\ UNCHANGED playerBuzzTimestamps

\* --------------------------------------------------------- team management
assignPlayerToTeam(sessionId, playerId, teamId) ==
  IF \/ sessionId \notin DOMAIN sessions
     \/ playerId \notin DOMAIN sessions[sessionId].players
     \/ (teamId # NULL /\ TeamIndex(sessions[sessionId].teams, teamId) = 0)
  THEN UNCHANGED <<serverVars, observerVars>>
  ELSE /\ sessions' = [sessions EXCEPT ![sessionId].players[playerId].teamId = teamId]
       /\ UNCHANGED <<playerToSession, socketToPlayer, playerBuzzTimestamps, observerVars>>

\* teams.splice(index, 1) on the first team with this id
SplicedTeams(teams, teamId) ==
  LET index == TeamIndex(teams, teamId)
  IN SubSeq(teams, 1, index - 1) \o SubSeq(teams, index + 1, Len(teams))

\* Mutant: the members of the removed team keep its id
removeTeam_keepsMembers(sessionId, teamId) ==
  IF \/ sessionId \notin DOMAIN sessions
     \/ TeamIndex(sessions[sessionId].teams, teamId) = 0
  THEN UNCHANGED <<serverVars, observerVars>>
  ELSE /\ sessions' = [sessions EXCEPT ![sessionId].teams = SplicedTeams(@, teamId)]
       /\ UNCHANGED <<playerToSession, socketToPlayer, playerBuzzTimestamps, observerVars>>

removeTeam(sessionId, teamId) ==
  IF \/ sessionId \notin DOMAIN sessions
     \/ TeamIndex(sessions[sessionId].teams, teamId) = 0
  THEN UNCHANGED <<serverVars, observerVars>>
  ELSE /\ sessions' = [sessions EXCEPT
                         ![sessionId].teams = SplicedTeams(@, teamId),
                         ![sessionId].players =
                            [p \in DOMAIN @ |->
                               IF @[p].teamId = teamId THEN [@[p] EXCEPT !.teamId = NULL]
                               ELSE @[p]]]
       /\ UNCHANGED <<playerToSession, socketToPlayer, playerBuzzTimestamps, observerVars>>

updateSettings(sessionId, patch) ==
  IF sessionId \notin DOMAIN sessions
  THEN UNCHANGED <<serverVars, observerVars>>
  ELSE /\ sessions' = [sessions EXCEPT ![sessionId].settings = MergeSettings(@, patch)]
       /\ UNCHANGED <<playerToSession, socketToPlayer, playerBuzzTimestamps, observerVars>>

\* ------------------------------------------------------------ specification
\* Date.now() during a call: the clock has advanced by at most one tick
Clock(T) == {t \in {now, now + 1} : t <= T}

SettingsPatches ==
  [oneBuzzPerTeam : BOOLEAN] \cup [allowLateBuzzes : BOOLEAN]

\* createSession(h1, settings), addTeam twice, then addPlayer for each of `players`,
\* all at time 1
InitialSession(settings, players) ==
  [id |-> "S1", hostSocketId |-> HostSocket, createdAt |-> 1,
   settings |-> MergeSettings(DEFAULT_SETTINGS, settings),
   teams |-> <<NewTeam("t1", "Red", 0), NewTeam("t2", "Blue", 1)>>,
   players |-> [p \in players |-> NewPlayer(p, 1)],
   round |-> createInitialRoundState,
   roundHistory |-> <<>>]

\* The manager after that construction
InitManager(settings, players) ==
  /\ sessions = [s \in {"S1"} |-> InitialSession(settings, players)]
  /\ playerToSession = [p \in players |-> "S1"]
  /\ socketToPlayer = [k \in {SocketOf(p) : p \in players} |->
                         CHOOSE p \in players : SocketOf(p) = k]
  /\ playerBuzzTimestamps = EmptyMap
  /\ now = 1
  /\ acceptedLog = <<>>
  /\ removedSince = FALSE
  /\ lastAcceptedAt = EmptyMap

NoClients ==
  /\ room = {}
  /\ inbox = EmptyMap
  /\ replica = EmptyMap

StartRound(T) ==
  \E sid \in DOMAIN sessions, t \in Clock(T) :
    /\ sessions[sid].round.questionNumber < MaxQuestions
    /\ startRound(sid, t) /\ now' = t /\ UNCHANGED clientVars

\* host:startRound once more, on top of whatever round there is
StartNextRound(T) ==
  \E sid \in DOMAIN sessions, t \in Clock(T) :
    /\ sessions[sid].round.questionNumber < MaxRounds
    /\ startRound(sid, t) /\ now' = t /\ UNCHANGED clientVars

ResetRound(T) ==
  \E sid \in DOMAIN sessions, t \in Clock(T) :
    resetRound(sid) /\ now' = t /\ UNCHANGED clientVars

ProcessBuzz(T) ==
  \E k \in SocketIds, t \in Clock(T) :
    processBuzz(k, t) /\ now' = t /\ UNCHANGED clientVars

MarkCorrect(T) ==
  \E sid \in DOMAIN sessions, t \in Clock(T) :
    markCorrect(sid, t) /\ now' = t /\ UNCHANGED clientVars

MarkPass(T) ==
  \E sid \in DOMAIN sessions, t \in Clock(T) :
    markPass(sid) /\ now' = t /\ UNCHANGED clientVars

SkipPlayer(T) ==
  \E sid \in DOMAIN sessions, p \in PlayerIds, t \in Clock(T) :
    skipPlayer(sid, p) /\ now' = t /\ UNCHANGED clientVars

RemovePlayer(T) ==
  \E sid \in DOMAIN sessions, p \in PlayerIds, t \in Clock(T) :
    removePlayer(sid, p) /\ now' = t /\ UNCHANGED clientVars

AssignPlayerToTeam(T) ==
  \E sid \in DOMAIN sessions, p \in PlayerIds, team \in TeamIds \cup {NULL},
     t \in Clock(T) :
    assignPlayerToTeam(sid, p, team) /\ now' = t /\ UNCHANGED clientVars

UpdateSettings(T) ==
  \E sid \in DOMAIN sessions, patch \in SettingsPatches, t \in Clock(T) :
    updateSettings(sid, patch) /\ now' = t /\ UNCHANGED clientVars

RemoveTeam(T) ==
  \E sid \in DOMAIN sessions, team \in TeamIds, t \in Clock(T) :
    removeTeam(sid, team) /\ now' = t /\ UNCHANGED clientVars

\* The round engine: one session, three players, late buzzes allowed
Init ==
  /\ \E late \in BOOLEAN :
       InitManager([buzzCooldownMs |-> 1, allowLateBuzzes |-> late], PlayerIds)
  /\ NoClients

Next ==
  \/ StartRound(MaxTime)
  \/ ResetRound(MaxTime)
  \/ ProcessBuzz(MaxTime)
  \/ MarkCorrect(MaxTime)
  \/ MarkPass(MaxTime)
  \/ SkipPlayer(MaxTime)
  \/ RemovePlayer(MaxTime)

Spec == Init /\ [][Next]_vars

\* Team play: one session, two teams, two players that the host moves between
\* the teams while rounds are played; no cooldown, and every call is made at
\* the same clock reading
TeamPlayers == {"p1", "p2"}

TeamInit ==
  /\ \E one \in BOOLEAN :
       InitManager([buzzCooldownMs |-> 0, teamModeEnabled |-> TRUE,
                    oneBuzzPerTeam |-> one], TeamPlayers)
  /\ NoClients

TeamNext ==
  \/ StartRound(now)
  \/ ProcessBuzz(now)
  \/ MarkCorrect(now)
  \/ MarkPass(now)
  \/ AssignPlayerToTeam(now)
  \/ RemoveTeam(now)
  \/ UpdateSettings(now)

TeamSpec == TeamInit /\ [][TeamNext]_vars

\* Team-exclusive play: oneBuzzPerTeam is on from the creation of the session and
\* never changed, while the host moves three players between two teams; no
\* cooldown, and every call is made at the same clock reading
ExclusiveInit ==
  /\ InitManager([buzzCooldownMs |-> 0, teamModeEnabled |-> TRUE,
                  oneBuzzPerTeam |-> TRUE], PlayerIds)
  /\ NoClients

ExclusiveNext ==
  \/ StartRound(now)
  \/ ProcessBuzz(now)
  \/ MarkPass(now)
  \/ AssignPlayerToTeam(now)

ExclusiveSpec == ExclusiveInit /\ [][ExclusiveNext]_vars

\* ------------------------------------------------------------------ gateway
\* The players of the gateway specification: those that have joined at the start,
\* and those that join later
GatewayPlayers == {"p1"}
LateJoiners == {"p2"}

ClientSockets == {HostSocket} \cup {SocketOf(p) : p \in GatewayPlayers \cup LateJoiners}

\* Insertion order of session.players: ids are handed out in this order
PlayerOrder == <<"p1", "p2", "p3">>

\* Array.from(session.players.values())
PlayersArray(players) ==
  LET ids == SelectSeq(PlayerOrder, LAMBDA p : p \in DOMAIN players)
  IN [i \in 1..Len(ids) |-> players[ids[i]]]

serializeSession(session) == [session EXCEPT !.players = PlayersArray(@)]

\* Mutant: a session of the registry is taken, whoever hosts it
getSessionByHostSocket_anyHost(socketId) ==
  IF DOMAIN sessions # {}
  THEN <<CHOOSE sid \in DOMAIN sessions : TRUE>>
  ELSE <<>>

\* The first session whose hostSocketId is this socket, as a sequence of at most one id
getSessionByHostSocket(socketId) ==
  IF \E sid \in DOMAIN sessions : sessions[sid].hostSocketId = socketId
  THEN <<CHOOSE sid \in DOMAIN sessions : sessions[sid].hostSocketId = socketId>>
  ELSE <<>>

\* displayName.toLowerCase() on the names in use
LowerCase(name) ==
  CASE name = "Ann" -> "ann" [] name = "Bob" -> "bob" [] name = "Cy" -> "cy"
    [] name = " Bob " -> " bob " [] OTHER -> name

\* displayName.trim().slice(0, 20) on the names in use (none is longer than 20)
TrimName(name) ==
  CASE name = " Bob " -> "Bob" [] name = " Red " -> "Red" [] OTHER -> name

SESSION_NOT_FOUND == "Session not found"
SESSION_FULL == "Session is full"
NAME_TAKEN == "Name already taken"

\* Mutant: the name check also counts players that are not connected
AddPlayerError_anyPlayer(sessionId, displayName) ==
  IF sessionId \notin DOMAIN sessions THEN SESSION_NOT_FOUND
  ELSE LET session == sessions[sessionId] IN
    IF Cardinality(DOMAIN session.players) >= session.settings.maxPlayersPerSession
    THEN SESSION_FULL
    ELSE IF \E p \in DOMAIN session.players :
              LowerCase(session.players[p].displayName) = LowerCase(displayName)
         THEN NAME_TAKEN
    ELSE NULL

\* The error addPlayer returns, NULL when it adds the player
AddPlayerError(sessionId, displayName) ==
  IF sessionId \notin DOMAIN sessions THEN SESSION_NOT_FOUND
  ELSE LET session == sessions[sessionId] IN
    IF Cardinality(DOMAIN session.players) >= session.settings.maxPlayersPerSession
    THEN SESSION_FULL
    ELSE IF \E p \in DOMAIN session.players :
              /\ LowerCase(session.players[p].displayName) = LowerCase(displayName)
              /\ session.players[p].isConnected
         THEN NAME_TAKEN
    ELSE NULL

\* addPlayer, with the uuid it draws as playerId
addPlayer(sessionId, socketId, displayName, playerId, t) ==
  IF AddPlayerError(sessionId, displayName) # NULL
  THEN UNCHANGED <<serverVars, observerVars>>
  ELSE LET player == [id |-> playerId, socketId |-> socketId,
                      displayName |-> TrimName(displayName), teamId |-> NULL,
                      isConnected |-> TRUE, lastSeen |-> t]
       IN /\ sessions' = [sessions EXCEPT
                            ![sessionId].players = MapSet(@, playerId, player)]
          /\ playerToSession' = MapSet(playerToSession, playerId, sessionId)
          /\ socketToPlayer' = MapSet(socketToPlayer, socketId, playerId)
          /\ UNCHANGED <<playerBuzzTimestamps, observerVars>>

Event(type, data) == [type |-> type, data |-> data]

\* io.to(recipients).emit(...) for each of `events`, in order
Emit(box, recipients, events) ==
  [k \in DOMAIN box |-> IF k \in recipients THEN box[k] \o events ELSE box[k]]

\* Sockets in the room player:<playerId>
PlayerRoom(playerId) == {k \in room : k = SocketOf(playerId)}

\* Every subscriber can take n more events
HasRoom(n) == \A k \in ClientSockets : Len(inbox[k]) + n <= MaxInbox

OnHostStartRound(socket, t) ==
  LET found == getSessionByHostSocket(socket) IN
  IF found = <<>> THEN UNCHANGED <<serverVars, observerVars, clientVars>>
  ELSE /\ startRound(found[1], t)
       /\ inbox' = Emit(inbox, room, <<Event("round:started", sessions'[found[1]].round)>>)
       /\ UNCHANGED <<room, replica>>

OnHostResetRound(socket) ==
  LET found == getSessionByHostSocket(socket) IN
  IF found = <<>> THEN UNCHANGED <<serverVars, observerVars, clientVars>>
  ELSE /\ resetRound(found[1])
       /\ inbox' = Emit(inbox, room, <<Event("round:reset", sessions'[found[1]].round)>>)
       /\ UNCHANGED <<room, replica>>

OnPlayerBuzz(socket, t) ==
  /\ processBuzz(socket, t)
  /\ IF BuzzResult(socket, t) # ACCEPTED THEN UNCHANGED clientVars
     ELSE LET session == sessions'[getPlayerBySocketId(socket).sessionId]
              result == session.round.buzzQueue[Len(session.round.buzzQueue)]
              locked == IF result.position = 1
                        THEN <<Event("round:locked",
                                     [activePlayerId |-> result.playerId,
                                      queue |-> session.round.buzzQueue])>>
                        ELSE <<>>
          IN /\ inbox' = Emit(inbox, room,
                              <<Event("round:buzzReceived", result)>> \o locked)
             /\ UNCHANGED <<room, replica>>

OnHostMarkCorrect(socket, t) ==
  LET found == getSessionByHostSocket(socket) IN
  IF found = <<>> THEN UNCHANGED <<serverVars, observerVars, clientVars>>
  ELSE LET result == MarkCorrectResult(found[1], t) IN
       /\ markCorrect(found[1], t)
       /\ IF result = <<>> THEN UNCHANGED clientVars
          ELSE /\ inbox' = Emit(inbox, room,
                     <<Event("round:correct",
                             [playerId |-> result[1].winnerId,
                              playerName |-> result[1].winnerName,
                              teamId |-> result[1].teamId]),
                       Event("session:updated", serializeSession(sessions'[found[1]]))>>)
               /\ UNCHANGED <<room, replica>>

OnHostMarkPass(socket) ==
  LET found == getSessionByHostSocket(socket) IN
  IF found = <<>> THEN UNCHANGED <<serverVars, observerVars, clientVars>>
  ELSE LET result == MarkPassResult(found[1]) IN
       /\ markPass(found[1])
       /\ IF result = <<>> THEN UNCHANGED clientVars
          ELSE /\ inbox' = Emit(inbox, room, <<Event("round:playerPassed", result[1])>>)
               /\ UNCHANGED <<room, replica>>

OnHostSkipPlayer(socket, playerId) ==
  LET found == getSessionByHostSocket(socket) IN
  IF found = <<>> THEN UNCHANGED <<serverVars, observerVars, clientVars>>
  ELSE /\ skipPlayer(found[1], playerId)
       /\ inbox' = Emit(inbox, room,
                        <<Event("session:updated", serializeSession(sessions'[found[1]]))>>)
       /\ UNCHANGED <<room, replica>>

OnHostKickPlayer(socket, playerId) ==
  LET found == getSessionByHostSocket(socket) IN
  IF \/ found = <<>>
     \/ playerId \notin DOMAIN sessions[found[1]].players
  THEN UNCHANGED <<serverVars, observerVars, clientVars>>
  ELSE /\ removePlayer(found[1], playerId)
       /\ inbox' = Emit(Emit(inbox, PlayerRoom(playerId), <<Event("player:kicked", NULL)>>),
                        room, <<Event("player:left", playerId)>>)
       /\ UNCHANGED <<room, replica>>

OnPlayerJoin(socket, sessionId, displayName, playerId, t) ==
  /\ addPlayer(sessionId, socket, displayName, playerId, t)
  /\ IF AddPlayerError(sessionId, displayName) # NULL
     THEN /\ inbox' = Emit(inbox, {socket},
                           <<Event("session:error",
                                   [code |-> "JOIN_FAILED",
                                    message |-> AddPlayerError(sessionId, displayName)])>>)
          /\ UNCHANGED <<room, replica>>
     ELSE /\ room' = room \cup {socket}
          /\ inbox' = Emit(Emit(inbox, {socket},
                                <<Event("session:joined",
                                        [playerId |-> playerId,
                                         session |-> serializeSession(sessions'[sessionId])])>>),
                           room \ {socket},
                           <<Event("player:joined", sessions'[sessionId].players[playerId])>>)
          /\ UNCHANGED replica

\* ------------------------------------------------------------------ clients
\* Each handler is the body of its setSession(prev => ...) for a non-null prev; a
\* client's session is <<>> when null
handlePlayerJoined(session, player) ==
  [session EXCEPT !.players = SelectSeq(@, LAMBDA p : p.id # player.id) \o <<player>>]

handlePlayerLeft(session, playerId) ==
  [session EXCEPT !.players = SelectSeq(@, LAMBDA p : p.id # playerId)]

handlePlayerUpdated(session, player) ==
  [session EXCEPT !.players =
     [i \in 1..Len(@) |-> IF @[i].id = player.id THEN player ELSE @[i]]]

handleRoundStarted(session, round) == [session EXCEPT !.round = round]

handleBuzzReceived(session, entry) ==
  LET queue == session.round.buzzQueue
      exists == \E i \in 1..Len(queue) : queue[i].playerId = entry.playerId
  IN IF exists THEN session
     ELSE [session EXCEPT
             !.round.status = IF Len(queue) = 0 THEN "locked" ELSE @,
             !.round.activePlayerId = IF Len(queue) = 0 THEN entry.playerId ELSE @,
             !.round.buzzQueue = Append(@, entry)]

handleRoundLocked(session, data, t) ==
  [session EXCEPT !.round.status = "locked",
                  !.round.activePlayerId = data.activePlayerId,
                  !.round.buzzQueue = data.queue,
                  !.round.lockedAt = t]

handlePlayerPassed(session, data) ==
  [session EXCEPT
     !.round.activePlayerId = data.newActivePlayerId,
     !.round.buzzQueue = SelectSeq(@, LAMBDA b : b.playerId # data.passedPlayerId),
     !.round.status = IF data.newActivePlayerId # NULL THEN "locked" ELSE "waiting"]

handleRoundCorrect(session) ==
  [session EXCEPT !.round.status = "ended",
                  !.round.activePlayerId = NULL,
                  !.round.buzzQueue = <<>>]

handleRoundReset(session, round) == [session EXCEPT !.round = round]

\* The handlers useHostSession and usePlayerSession both register; all but
\* handleSessionUpdated return null for a null session
SharedHandlers(prev, ev, t) ==
  IF ev.type = "session:updated" THEN <<ev.data>>
  ELSE IF prev = <<>> THEN <<>>
  ELSE
    CASE ev.type = "player:joined" -> <<handlePlayerJoined(prev[1], ev.data)>>
      [] ev.type = "player:left" -> <<handlePlayerLeft(prev[1], ev.data)>>
      [] ev.type = "player:updated" -> <<handlePlayerUpdated(prev[1], ev.data)>>
      [] ev.type = "round:started" -> <<handleRoundStarted(prev[1], ev.data)>>
      [] ev.type = "round:buzzReceived" -> <<handleBuzzReceived(prev[1], ev.data)>>
      [] ev.type = "round:locked" -> <<handleRoundLocked(prev[1], ev.data, t)>>
      [] ev.type = "round:playerPassed" -> <<handlePlayerPassed(prev[1], ev.data)>>
      [] ev.type = "round:reset" -> <<handleRoundReset(prev[1], ev.data)>>
      [] OTHER -> prev

\* useHostSession: the session after the event
useHostSession(prev, ev, t) ==
  IF ev.type = "session:created" THEN <<ev.data.session>>
  ELSE SharedHandlers(prev, ev, t)

\* usePlayerSession: the session after the event
usePlayerSession(prev, ev, t) ==
  IF ev.type \in {"session:joined", "session:rejoined"} THEN <<ev.data.session>>
  ELSE IF ev.type = "round:correct"
       THEN (IF prev = <<>> THEN <<>> ELSE <<handleRoundCorrect(prev[1])>>)
  ELSE IF ev.type \in {"player:kicked", "session:ended"} THEN <<>>
  ELSE SharedHandlers(prev, ev, t)

\* ------------------------------------------------- gateway specification
\* The host has created the session and two teams, p1 has joined, and
\* every event of that has been handled
GatewayInit ==
  /\ InitManager([buzzCooldownMs |-> 0], GatewayPlayers)
  /\ room = {HostSocket} \cup {SocketOf(p) : p \in GatewayPlayers}
  /\ inbox = [k \in ClientSockets |-> <<>>]
  /\ replica = [k \in ClientSockets |->
                  IF k \in room THEN <<serializeSession(sessions["S1"])>> ELSE <<>>]

HostStartRound ==
  \E k \in ClientSockets, sid \in DOMAIN sessions :
    /\ sessions[sid].round.questionNumber < MaxQuestions
    /\ HasRoom(1)
    /\ OnHostStartRound(k, now) /\ UNCHANGED now

HostResetRound ==
  \E k \in ClientSockets :
    HasRoom(1) /\ OnHostResetRound(k) /\ UNCHANGED now

PlayerBuzz ==
  \E k \in ClientSockets :
    HasRoom(2) /\ OnPlayerBuzz(k, now) /\ UNCHANGED now

HostMarkCorrect ==
  \E k \in ClientSockets :
    HasRoom(2) /\ OnHostMarkCorrect(k, now) /\ UNCHANGED now

HostMarkPass ==
  \E k \in ClientSockets :
    HasRoom(1) /\ OnHostMarkPass(k) /\ UNCHANGED now

HostSkipPlayer ==
  \E k \in ClientSockets, p \in GatewayPlayers \cup LateJoiners :
    HasRoom(1) /\ OnHostSkipPlayer(k, p) /\ UNCHANGED now

HostKickPlayer ==
  \E k \in ClientSockets, p \in GatewayPlayers \cup LateJoiners :
    HasRoom(2) /\ OnHostKickPlayer(k, p) /\ UNCHANGED now

\* A connection that has not joined sends player:join; the uuid is the next unused id
PlayerJoin ==
  \E p \in LateJoiners, name \in {" Bob ", "ann"} :
    /\ SocketOf(p) \notin room
    /\ HasRoom(1)
    /\ OnPlayerJoin(SocketOf(p), "S1", name, p, now) /\ UNCHANGED now

\* The client behind socket k handles the oldest event sent to it
Deliver ==
  \E k \in ClientSockets :
    /\ inbox[k] # <<>>
    /\ replica' = [replica EXCEPT ![k] =
                     IF k = HostSocket THEN useHostSession(@, Head(inbox[k]), now)
                     ELSE usePlayerSession(@, Head(inbox[k]), now)]
    /\ inbox' = [inbox EXCEPT ![k] = Tail(@)]
    /\ UNCHANGED <<serverVars, observerVars, now, room>>

GatewayNext ==
  \/ HostStartRound
  \/ HostResetRound
  \/ PlayerBuzz
  \/ HostMarkCorrect
  \/ HostMarkPass
  \/ HostSkipPlayer
  \/ HostKickPlayer
  \/ PlayerJoin
  \/ Deliver

GatewaySpec == GatewayInit /\ [][GatewayNext]_vars

\* --------------------------------------------------------- session lifecycle
MaxScore == 1           \* the host adds points to a team while its score is below MaxScore

PLAYER_NOT_IN_SESSION == "Player not found in session"

\* Mutant: only the session is looked up
RejoinError_sessionOnly(sessionId, playerId) ==
  IF sessionId \notin DOMAIN sessions THEN SESSION_NOT_FOUND ELSE NULL

\* The error rejoinPlayer returns, NULL when it rebinds the player
RejoinError(sessionId, playerId) ==
  IF sessionId \notin DOMAIN sessions THEN SESSION_NOT_FOUND
  ELSE IF playerId \notin DOMAIN sessions[sessionId].players THEN PLAYER_NOT_IN_SESSION
  ELSE NULL

\* Mutant: the rejoining player is put at the back of the queue
RejoinedRound_requeued(round, playerId) ==
  LET mine == SelectSeq(round.buzzQueue, LAMBDA b : b.playerId = playerId)
  IN [round EXCEPT !.buzzQueue = Renumber(RemoveFromQueue(@, playerId) \o mine)]

\* The round rejoinPlayer leaves: it does not touch it
RejoinedRound(round, playerId) == round

\* Mutant: the lookup of the previous connection is kept
rejoinPlayer_keepsOldBinding(sessionId, playerId, newSocketId, t) ==
  IF RejoinError(sessionId, playerId) # NULL
  THEN UNCHANGED <<serverVars, observerVars>>
  ELSE /\ socketToPlayer' = MapSet(socketToPlayer, newSocketId, playerId)
       /\ sessions' = [sessions EXCEPT
                         ![sessionId].players[playerId] =
                            [@ EXCEPT !.socketId = newSocketId, !.isConnected = TRUE,
                                      !.lastSeen = t]]
       /\ UNCHANGED <<playerToSession, playerBuzzTimestamps, observerVars>>

rejoinPlayer(sessionId, playerId, newSocketId, t) ==
  IF RejoinError(sessionId, playerId) # NULL
  THEN UNCHANGED <<serverVars, observerVars>>
  ELSE LET player == sessions[sessionId].players[playerId] IN
       /\ socketToPlayer' =
            MapSet(MapDelete(socketToPlayer, player.socketId), newSocketId, playerId)
       /\ sessions' = [sessions EXCEPT
                         ![sessionId].players[playerId] =
                            [@ EXCEPT !.socketId = newSocketId, !.isConnected = TRUE,
                                      !.lastSeen = t],
                         ![sessionId].round = RejoinedRound(@, playerId)]
       /\ UNCHANGED <<playerToSession, playerBuzzTimestamps, observerVars>>

\* Mutant: a disconnect is treated as a departure from the round
disconnectPlayer_leavesRound(socketId, t) ==
  LET playerData == getPlayerBySocketId(socketId) IN
  IF ~playerData.found
  THEN UNCHANGED <<serverVars, observerVars>>
  ELSE LET round == sessions[playerData.sessionId].round
           left == [round EXCEPT !.buzzQueue = RemoveFromQueue(@, playerData.playerId)]
       IN
       /\ sessions' = [sessions EXCEPT
                         ![playerData.sessionId].players[playerData.playerId] =
                            [@ EXCEPT !.isConnected = FALSE, !.lastSeen = t],
                         ![playerData.sessionId].round =
                            IF round.activePlayerId = playerData.playerId
                            THEN advanceQueue(left) ELSE left]
       /\ UNCHANGED <<playerToSession, socketToPlayer, playerBuzzTimestamps, observerVars>>

disconnectPlayer(socketId, t) ==
  LET playerData == getPlayerBySocketId(socketId) IN
  IF ~playerData.found
  THEN UNCHANGED <<serverVars, observerVars>>
  ELSE /\ sessions' = [sessions EXCEPT
                         ![playerData.sessionId].players[playerData.playerId] =
                            [@ EXCEPT !.isConnected = FALSE, !.lastSeen = t]]
       /\ UNCHANGED <<playerToSession, socketToPlayer, playerBuzzTimestamps, observerVars>>

\* addTeam, with the uuid it draws as teamId
addTeam(sessionId, name, teamId) ==
  IF sessionId \notin DOMAIN sessions
  THEN UNCHANGED <<serverVars, observerVars>>
  ELSE /\ sessions' = [sessions EXCEPT
                         ![sessionId].teams =
                            Append(@, NewTeam(teamId, TrimName(name), Len(@)))]
       /\ UNCHANGED <<playerToSession, socketToPlayer, playerBuzzTimestamps, observerVars>>

updateTeamScore(sessionId, teamId, delta) ==
  IF \/ sessionId \notin DOMAIN sessions
     \/ TeamIndex(sessions[sessionId].teams, teamId) = 0
  THEN UNCHANGED <<serverVars, observerVars>>
  ELSE /\ sessions' = [sessions EXCEPT ![sessionId].teams = ScoreAdded(@, teamId, delta)]
       /\ UNCHANGED <<playerToSession, socketToPlayer, playerBuzzTimestamps, observerVars>>

\* The players of the lifecycle specification: those that have joined at the
\* start and the ids uuidv4 hands to later joiners and later teams
SessionPlayers == {"p1"}
SessionJoiners == {"p2"}
SessionSockets == {"k1", "k9"}
SessionTeamIds == {"t1"}

\* Nothing in the manager refers to this player id: it can be the next uuid
UnusedPlayerId(p) ==
  /\ p \notin DOMAIN playerToSession
  /\ p \notin DOMAIN playerBuzzTimestamps
  /\ \A k \in DOMAIN socketToPlayer : socketToPlayer[k] # p
  /\ \A sid \in DOMAIN sessions :
       /\ p \notin DOMAIN sessions[sid].players
       /\ \A i \in 1..Len(sessions[sid].roundHistory) :
            sessions[sid].roundHistory[i].winnerId # p

\* Nothing in the manager refers to this team id: it can be the next uuid
UnusedTeamId(team) ==
  \A sid \in DOMAIN sessions :
    /\ TeamIndex(sessions[sid].teams, team) = 0
    /\ \A p \in DOMAIN sessions[sid].players : sessions[sid].players[p].teamId # team
    /\ \A i \in 1..Len(sessions[sid].round.buzzQueue) :
         sessions[sid].round.buzzQueue[i].teamId # team
    /\ \A i \in 1..Len(sessions[sid].roundHistory) :
         sessions[sid].roundHistory[i].teamId # team

JoinPlayer(T) ==
  \E sid \in DOMAIN sessions, k \in SessionSockets, p \in SessionJoiners,
     name \in {" Bob "}, t \in Clock(T) :
    /\ UnusedPlayerId(p)
    /\ addPlayer(sid, k, name, p, t) /\ now' = t /\ UNCHANGED clientVars

RejoinPlayer(T) ==
  \E sid \in DOMAIN sessions, p \in SessionPlayers \cup SessionJoiners,
     k \in SessionSockets, t \in Clock(T) :
    rejoinPlayer(sid, p, k, t) /\ now' = t /\ UNCHANGED clientVars

DisconnectPlayer(T) ==
  \E k \in SessionSockets, t \in Clock(T) :
    disconnectPlayer(k, t) /\ now' = t /\ UNCHANGED clientVars

AddTeam(T) ==
  \E sid \in DOMAIN sessions, team \in SessionTeamIds, t \in Clock(T) :
    /\ UnusedTeamId(team)
    /\ addTeam(sid, " Red ", team) /\ now' = t /\ UNCHANGED clientVars

UpdateTeamScore(T) ==
  \E sid \in DOMAIN sessions, team \in SessionTeamIds, delta \in {1},
     t \in Clock(T) :
    /\ \A i \in 1..Len(sessions[sid].teams) :
         sessions[sid].teams[i].id = team
         => sessions[sid].teams[i].score + delta <= MaxScore
    /\ updateTeamScore(sid, team, delta) /\ now' = t /\ UNCHANGED clientVars

\* Successive rounds: two players, and a host that starts a round on top of
\* any other, resets, marks correct and adds points to the first team
RoundsPlayers == {"p1", "p2"}

RoundsInit ==
  /\ InitManager([buzzCooldownMs |-> 1], RoundsPlayers)
  /\ NoClients

RoundsNext ==
  \/ StartNextRound(MaxTime)
  \/ ResetRound(MaxTime)
  \/ ProcessBuzz(MaxTime)
  \/ MarkCorrect(MaxTime)
  \/ UpdateTeamScore(MaxTime)

RoundsSpec == RoundsInit /\ [][RoundsNext]_vars

\* One session over its life: players come, go and come back, the host edits
\* teams, and rounds are played; every call is made at the same clock reading
\* createSession(h1, {buzzCooldownMs: 0}) and addPlayer for p1; no team yet
SessionInit ==
  /\ sessions = [s \in {"S1"} |->
                   [InitialSession([buzzCooldownMs |-> 0], SessionPlayers)
                      EXCEPT !.teams = <<>>]]
  /\ playerToSession = [p \in SessionPlayers |-> "S1"]
  /\ socketToPlayer = [k \in {SocketOf(p) : p \in SessionPlayers} |->
                         CHOOSE p \in SessionPlayers : SocketOf(p) = k]
  /\ playerBuzzTimestamps = EmptyMap
  /\ now = 1
  /\ acceptedLog = <<>>
  /\ removedSince = FALSE
  /\ lastAcceptedAt = EmptyMap
  /\ NoClients

SessionNext ==
  \/ StartRound(now)
  \/ ResetRound(now)
  \/ ProcessBuzz(now)
  \/ MarkCorrect(now)
  \/ MarkPass(now)
  \/ SkipPlayer(now)
  \/ RemovePlayer(now)
  \/ JoinPlayer(now)
  \/ RejoinPlayer(now)
  \/ DisconnectPlayer(now)
  \/ AddTeam(now)
  \/ RemoveTeam(now)
  \/ AssignPlayerToTeam(now)

SessionSpec == SessionInit /\ [][SessionNext]_vars

\* Joining: one session that admits two players; people join under the names
\* in JoinNames from two connections, connections are lost and the host kicks;
\* every call is made at the same clock reading
JoinNames == {"Ann", "Bob", "bob", " Bob "}

\* createSession(h1, {maxPlayersPerSession: 2}): no team, no player
JoinInit ==
  /\ sessions = [s \in {"S1"} |->
                   [InitialSession([maxPlayersPerSession |-> 2], {})
                      EXCEPT !.teams = <<>>]]
  /\ playerToSession = EmptyMap
  /\ socketToPlayer = EmptyMap
  /\ playerBuzzTimestamps = EmptyMap
  /\ now = 1
  /\ acceptedLog = <<>>
  /\ removedSince = FALSE
  /\ lastAcceptedAt = EmptyMap
  /\ NoClients

JoinAs(T) ==
  \E sid \in DOMAIN sessions, k \in SessionSockets, p \in PlayerIds,
     name \in JoinNames, t \in Clock(T) :
    /\ UnusedPlayerId(p)
    /\ addPlayer(sid, k, name, p, t) /\ now' = t /\ UNCHANGED clientVars

JoinNext ==
  \/ JoinAs(now)
  \/ DisconnectPlayer(now)
  \/ RemovePlayer(now)

JoinSpec == JoinInit /\ [][JoinNext]_vars

\* -------------------------------------------------------- session registry
\* The codes generateSessionId draws in the registry specifications
SessionCodes == {"S1", "S2"}

\* The session createSession builds
NewSession(sessionId, hostSocketId, settings, t) ==
  [id |-> sessionId, hostSocketId |-> hostSocketId, createdAt |-> t,
   settings |-> MergeSettings(DEFAULT_SETTINGS, settings),
   teams |-> <<>>, players |-> EmptyMap,
   round |-> createInitialRoundState, roundHistory |-> <<>>]

\* createSession, with the code generateSessionId draws as sessionId: the code
\* is not compared with the codes of the live sessions
createSession(hostSocketId, settings, sessionId, t) ==
  /\ sessions' = MapSet(sessions, sessionId,
                        NewSession(sessionId, hostSocketId, settings, t))
  /\ UNCHANGED <<playerToSession, socketToPlayer, playerBuzzTimestamps, observerVars>>

\* The players of these sessions and the connection each is bound to
PlayersOfSessions(ids) == UNION {DOMAIN sessions[sid].players : sid \in ids}
SocketsOfSessions(ids) ==
  UNION {{sessions[sid].players[p].socketId : p \in DOMAIN sessions[sid].players} :
         sid \in ids}

\* Mutant: the sessions leave the registry, the lookups of their players stay
EndSessions_keepsLookups(ids) ==
  /\ sessions' = [sid \in DOMAIN sessions \ ids |-> sessions[sid]]
  /\ UNCHANGED <<playerToSession, socketToPlayer, playerBuzzTimestamps, observerVars>>

\* endSession for each of these live sessions: the lookups of its players are
\* deleted, then the session
EndSessions(ids) ==
  /\ playerToSession' = [p \in DOMAIN playerToSession \ PlayersOfSessions(ids) |->
                           playerToSession[p]]
  /\ socketToPlayer' = [k \in DOMAIN socketToPlayer \ SocketsOfSessions(ids) |->
                          socketToPlayer[k]]
  /\ sessions' = [sid \in DOMAIN sessions \ ids |-> sessions[sid]]
  /\ UNCHANGED <<playerBuzzTimestamps, observerVars>>

endSession(sessionId) ==
  IF sessionId \notin DOMAIN sessions
  THEN UNCHANGED <<serverVars, observerVars>>
  ELSE EndSessions({sessionId})

\* Math.max(session.createdAt, ...players.map(p => p.lastSeen))
LastActivity(session) ==
  LET times == {session.createdAt}
                 \cup {session.players[p].lastSeen : p \in DOMAIN session.players}
  IN CHOOSE m \in times : \A x \in times : x <= m

\* Mutant: a session whose last activity is exactly maxAgeMs old is stale too
IsStale_atThreshold(session, maxAgeMs, t) ==
  t - LastActivity(session) >= maxAgeMs

\* now - lastActivity > maxAgeMs
IsStale(session, maxAgeMs, t) ==
  t - LastActivity(session) > maxAgeMs

cleanupStaleSessions(maxAgeMs, t) ==
  EndSessions({sid \in DOMAIN sessions : IsStale(sessions[sid], maxAgeMs, t)})

\* The thresholds the sweep is called with
MaxAges == {0, 1}

RegistryPlayers == {"p1", "p2"}

CreateSession(T) ==
  \E code \in SessionCodes, t \in Clock(T) :
    createSession(HostSocket, [buzzCooldownMs |-> 0], code, t)
    /\ now' = t /\ UNCHANGED clientVars

\* player:join with any code, live or not
Enter(T) ==
  \E sid \in SessionCodes, k \in SessionSockets, p \in RegistryPlayers,
     t \in Clock(T) :
    /\ UnusedPlayerId(p)
    /\ addPlayer(sid, k, "Ann", p, t) /\ now' = t /\ UNCHANGED clientVars

\* player:rejoin with any code and any player id, known or not
Reenter(T) ==
  \E sid \in SessionCodes, p \in RegistryPlayers, k \in SessionSockets,
     t \in Clock(T) :
    rejoinPlayer(sid, p, k, t) /\ now' = t /\ UNCHANGED clientVars

EndSession(T) ==
  \E sid \in DOMAIN sessions, t \in Clock(T) :
    endSession(sid) /\ now' = t /\ UNCHANGED clientVars

CleanupStaleSessions(T) ==
  \E maxAgeMs \in MaxAges, t \in Clock(T) :
    cleanupStaleSessions(maxAgeMs, t) /\ now' = t /\ UNCHANGED clientVars

\* createSession(h1) twice, at time 1, with the codes S1 and S2 drawn, then
\* addPlayer for p1 in S1: every code of SessionCodes is live
RegistryInit ==
  /\ sessions = [sid \in SessionCodes |->
                   IF sid = "S1"
                   THEN [NewSession(sid, HostSocket, [buzzCooldownMs |-> 0], 1)
                           EXCEPT !.players = [p \in {"p1"} |-> NewPlayer(p, 1)]]
                   ELSE NewSession(sid, HostSocket, [buzzCooldownMs |-> 0], 1)]
  /\ playerToSession = [p \in {"p1"} |-> "S1"]
  /\ socketToPlayer = [k \in {SocketOf("p1")} |-> "p1"]
  /\ playerBuzzTimestamps = EmptyMap
  /\ now = 1
  /\ acceptedLog = <<>>
  /\ removedSince = FALSE
  /\ lastAcceptedAt = EmptyMap
  /\ NoClients

\* The registry over time: sessions are created, people join, leave, come back
\* and are kicked, sessions are ended by the host and by the sweep
RegistryNext ==
  \/ CreateSession(MaxTime)
  \/ Enter(MaxTime)
  \/ Reenter(MaxTime)
  \/ DisconnectPlayer(MaxTime)
  \/ RemovePlayer(MaxTime)
  \/ EndSession(MaxTime)
  \/ CleanupStaleSessions(MaxTime)

RegistrySpec == RegistryInit /\ [][RegistryNext]_vars

\* The sweep alone: sessions leave the registry through the sweep only
SweepNext ==
  \/ Enter(MaxTime)
  \/ Reenter(MaxTime)
  \/ DisconnectPlayer(MaxTime)
  \/ CleanupStaleSessions(MaxTime)

SweepSpec == RegistryInit /\ [][SweepNext]_vars

\* ------------------------------------------------------------ host handlers
OnHostUpdateSettings(socket, patch) ==
  LET found == getSessionByHostSocket(socket) IN
  IF found = <<>>
  THEN /\ inbox' = Emit(inbox, {socket},
                        <<Event("session:error",
                                [code |-> "NOT_HOST", message |-> "Not a host"])>>)
       /\ UNCHANGED <<serverVars, observerVars, room, replica>>
  ELSE /\ updateSettings(found[1], patch)
       /\ inbox' = Emit(inbox, room,
                        <<Event("session:updated", serializeSession(sessions'[found[1]]))>>)
       /\ UNCHANGED <<room, replica>>

OnHostEndSession(socket) ==
  LET found == getSessionByHostSocket(socket) IN
  IF found = <<>> THEN UNCHANGED <<serverVars, observerVars, clientVars>>
  ELSE /\ endSession(found[1])
       /\ inbox' = Emit(inbox, room, <<Event("session:ended", NULL)>>)
       /\ UNCHANGED <<room, replica>>

OnHostAddTeam(socket, name, teamId) ==
  LET found == getSessionByHostSocket(socket) IN
  IF found = <<>> THEN UNCHANGED <<serverVars, observerVars, clientVars>>
  ELSE /\ addTeam(found[1], name, teamId)
       /\ inbox' = Emit(inbox, room,
                        <<Event("team:added",
                                sessions'[found[1]].teams[Len(sessions'[found[1]].teams)])>>)
       /\ UNCHANGED <<room, replica>>

OnHostRemoveTeam(socket, teamId) ==
  LET found == getSessionByHostSocket(socket) IN
  IF found = <<>> THEN UNCHANGED <<serverVars, observerVars, clientVars>>
  ELSE /\ removeTeam(found[1], teamId)
       /\ IF TeamIndex(sessions[found[1]].teams, teamId) = 0
          THEN UNCHANGED clientVars
          ELSE /\ inbox' = Emit(inbox, room,
                     <<Event("team:removed", teamId),
                       Event("session:updated", serializeSession(sessions'[found[1]]))>>)
               /\ UNCHANGED <<room, replica>>

OnHostAssignPlayerToTeam(socket, playerId, teamId) ==
  LET found == getSessionByHostSocket(socket) IN
  IF found = <<>> THEN UNCHANGED <<serverVars, observerVars, clientVars>>
  ELSE /\ assignPlayerToTeam(found[1], playerId, teamId)
       /\ IF \/ playerId \notin DOMAIN sessions[found[1]].players
             \/ (teamId # NULL /\ TeamIndex(sessions[found[1]].teams, teamId) = 0)
          THEN UNCHANGED clientVars
          ELSE /\ inbox' = Emit(inbox, room,
                     <<Event("player:updated", sessions'[found[1]].players[playerId])>>)
               /\ UNCHANGED <<room, replica>>

OnHostUpdateTeamScore(socket, teamId, delta) ==
  LET found == getSessionByHostSocket(socket) IN
  IF found = <<>> THEN UNCHANGED <<serverVars, observerVars, clientVars>>
  ELSE /\ updateTeamScore(found[1], teamId, delta)
       /\ IF TeamIndex(sessions[found[1]].teams, teamId) = 0
          THEN UNCHANGED clientVars
          ELSE LET team == FindTeam(sessions'[found[1]].teams, teamId)[1] IN
               /\ inbox' = Emit(inbox, room,
                     <<Event("team:scoreUpdated",
                             [teamId |-> team.id, score |-> team.score])>>)
               /\ UNCHANGED <<room, replica>>

\* The connections host actions arrive on: h1 hosts S1, k1 hosts S2 and is the
\* connection of p1, a player of S1, k2 has neither created nor joined a session
HostSockets == {"h1", "k1", "k2"}

\* host:create on h1 and on k1, with the codes S1 and S2 drawn, then player:join
\* S1 on k1
HostInit ==
  /\ sessions =
       [sid \in SessionCodes |->
          IF sid = "S1"
          THEN [NewSession(sid, "h1", [buzzCooldownMs |-> 0], 1)
                  EXCEPT !.players = [p \in {"p1"} |-> NewPlayer(p, 1)]]
          ELSE NewSession(sid, "k1", [buzzCooldownMs |-> 0], 1)]
  /\ playerToSession = [p \in {"p1"} |-> "S1"]
  /\ socketToPlayer = [k \in {"k1"} |-> "p1"]
  /\ playerBuzzTimestamps = EmptyMap
  /\ now = 1
  /\ acceptedLog = <<>>
  /\ removedSince = FALSE
  /\ lastAcceptedAt = EmptyMap
  /\ NoClients

StartRoundFrom(socket) ==
  /\ \A sid \in DOMAIN sessions :
       sessions[sid].hostSocketId = socket
       => sessions[sid].round.questionNumber < MaxQuestions
  /\ OnHostStartRound(socket, now) /\ UNCHANGED now

MarkCorrectFrom(socket) == OnHostMarkCorrect(socket, now) /\ UNCHANGED now

MarkPassFrom(socket) == OnHostMarkPass(socket) /\ UNCHANGED now

SkipPlayerFrom(socket) ==
  \E p \in RegistryPlayers : OnHostSkipPlayer(socket, p) /\ UNCHANGED now

ResetRoundFrom(socket) == OnHostResetRound(socket) /\ UNCHANGED now

EndSessionFrom(socket) == OnHostEndSession(socket) /\ UNCHANGED now

AddTeamFrom(socket) ==
  \E team \in SessionTeamIds :
    /\ UnusedTeamId(team)
    /\ OnHostAddTeam(socket, " Red ", team) /\ UNCHANGED now

RemoveTeamFrom(socket) ==
  \E team \in SessionTeamIds : OnHostRemoveTeam(socket, team) /\ UNCHANGED now

AssignPlayerToTeamFrom(socket) ==
  \E p \in RegistryPlayers, team \in SessionTeamIds \cup {NULL} :
    OnHostAssignPlayerToTeam(socket, p, team) /\ UNCHANGED now

UpdateTeamScoreFrom(socket) ==
  \E team \in SessionTeamIds :
    /\ \A sid \in DOMAIN sessions : \A i \in 1..Len(sessions[sid].teams) :
         sessions[sid].hostSocketId = socket
         => sessions[sid].teams[i].score + 1 <= MaxScore
    /\ OnHostUpdateTeamScore(socket, team, 1) /\ UNCHANGED now

KickPlayerFrom(socket) ==
  \E p \in RegistryPlayers : OnHostKickPlayer(socket, p) /\ UNCHANGED now

UpdateSettingsFrom(socket) ==
  OnHostUpdateSettings(socket, [allowLateBuzzes |-> FALSE]) /\ UNCHANGED now

\* Two sessions and their hosts: every host action arrives on every connection
HostNext ==
  \/ \E socket \in HostSockets : StartRoundFrom(socket)
  \/ \E socket \in HostSockets : MarkCorrectFrom(socket)
  \/ \E socket \in HostSockets : MarkPassFrom(socket)
  \/ \E socket \in HostSockets : SkipPlayerFrom(socket)
  \/ \E socket \in HostSockets : ResetRoundFrom(socket)
  \/ \E socket \in HostSockets : EndSessionFrom(socket)
  \/ \E socket \in HostSockets : AddTeamFrom(socket)
  \/ \E socket \in HostSockets : RemoveTeamFrom(socket)
  \/ \E socket \in HostSockets : AssignPlayerToTeamFrom(socket)
  \/ \E socket \in HostSockets : UpdateTeamScoreFrom(socket)
  \/ \E socket \in HostSockets : KickPlayerFrom(socket)
  \/ \E socket \in HostSockets : UpdateSettingsFrom(socket)
  \/ ProcessBuzz(now)

HostSpec == HostInit /\ [][HostNext]_vars

\* ------------------------------------------------------------ player status
\* Mutant: the queue is looked at before the active player
getPlayerStatus_queueFirst(playerId, round) ==
  IF round.status = "waiting" \/ round.status = "ended" THEN "waiting"
  ELSE IF \E i \in 1..Len(round.buzzQueue) : round.buzzQueue[i].playerId = playerId
       THEN "queued"
  ELSE IF round.activePlayerId = playerId THEN "active"
  ELSE IF round.status = "open" THEN "ready"
  ELSE "waiting"

getPlayerStatus(playerId, round) ==
  IF round.status = "waiting" \/ round.status = "ended" THEN "waiting"
  ELSE IF round.activePlayerId = playerId THEN "active"
  ELSE IF \E i \in 1..Len(round.buzzQueue) : round.buzzQueue[i].playerId = playerId
       THEN "queued"
  ELSE IF round.status = "open" THEN "ready"
  ELSE "waiting"

\* The players of the status specification, each with its page open
StatusPlayers == {"p1", "p2"}

\* The queues of at most two entries of different players
StatusQueues ==
  LET entry(p, i) == [playerId |-> p, playerName |-> NameOf(p), teamId |-> NULL,
                      teamName |-> NULL, teamColor |-> NULL, timestamp |-> 1,
                      position |-> i]
  IN {<<>>}
     \cup {<<entry(p, 1)>> : p \in StatusPlayers}
     \cup {<<entry(pq[1], 1), entry(pq[2], 2)>> :
             pq \in {x \in StatusPlayers \X StatusPlayers : x[1] # x[2]}}

\* The values of RoundState the function is applied to: every RoundStatus, any
\* active player or none, any of the queues
RoundStates ==
  [status : {"waiting", "open", "locked", "evaluating", "ended"},
   questionNumber : {1}, startedAt : {1}, lockedAt : {NoTime},
   activePlayerId : StatusPlayers \cup {NULL},
   buzzQueue : StatusQueues]

\* The server has an open round for p1 and p2; the pages of the players hold
\* the session with any RoundState
StatusInit ==
  /\ sessions = [s \in {"S1"} |->
                   [InitialSession([buzzCooldownMs |-> 0], StatusPlayers)
                      EXCEPT !.round = StartedRound(@, 1)]]
  /\ playerToSession = [p \in StatusPlayers |-> "S1"]
  /\ socketToPlayer = [k \in {SocketOf(p) : p \in StatusPlayers} |->
                         CHOOSE p \in StatusPlayers : SocketOf(p) = k]
  /\ playerBuzzTimestamps = EmptyMap
  /\ now = 1
  /\ acceptedLog = <<>>
  /\ removedSince = FALSE
  /\ lastAcceptedAt = EmptyMap
  /\ room = ClientSockets
  /\ inbox = [k \in ClientSockets |-> <<>>]
  /\ \E round \in RoundStates :
       replica = [k \in ClientSockets |->
                    <<[serializeSession(sessions["S1"]) EXCEPT !.round = round]>>]

\* PlayerPage.handleBuzz: the buzz is sent when the page's own status is ready
handleBuzz ==
  \E p \in StatusPlayers :
    /\ replica[SocketOf(p)] # <<>>
    /\ HasRoom(2)
    /\ IF getPlayerStatus(p, replica[SocketOf(p)][1].round) # "ready"
       THEN UNCHANGED vars
       ELSE OnPlayerBuzz(SocketOf(p), now) /\ UNCHANGED now

StatusNext ==
  \/ handleBuzz
  \/ Deliver

StatusSpec == StatusInit /\ [][StatusNext]_vars

\* The history of a session: successive rounds of two players, p1 in the first
\* team and p2 in the second, that the host kicks and whose teams it removes;
\* no cooldown, and every call is made at the same clock reading
\* createSession, addTeam twice, addPlayer twice and assignPlayerToTeam twice
HistoryInit ==
  /\ sessions = [s \in {"S1"} |->
                   [InitialSession([buzzCooldownMs |-> 0], RoundsPlayers)
                      EXCEPT !.players["p1"].teamId = "t1",
                             !.players["p2"].teamId = "t2"]]
  /\ playerToSession = [p \in RoundsPlayers |-> "S1"]
  /\ socketToPlayer = [k \in {SocketOf(p) : p \in RoundsPlayers} |->
                         CHOOSE p \in RoundsPlayers : SocketOf(p) = k]
  /\ playerBuzzTimestamps = EmptyMap
  /\ now = 1
  /\ acceptedLog = <<>>
  /\ removedSince = FALSE
  /\ lastAcceptedAt = EmptyMap
  /\ NoClients

HistoryNext ==
  \/ StartNextRound(now)
  \/ ResetRound(now)
  \/ ProcessBuzz(now)
  \/ MarkCorrect(now)
  \/ RemovePlayer(now)
  \/ RemoveTeam(now)

HistorySpec == HistoryInit /\ [][HistoryNext]_vars

\* Activity and the sweep: two players answer a question while the periodic
\* sweep runs, and the connection of the first is lost at some time; the clock
\* runs one tick past MaxTime so that a session can be more than one tick old
ActivityInit ==
  /\ InitManager([buzzCooldownMs |-> 0], RoundsPlayers)
  /\ NoClients

ActivityNext ==
  \/ StartRound(MaxTime + 1)
  \/ ProcessBuzz(MaxTime + 1)
  \/ DisconnectPlayer(MaxTime + 1)
  \/ CleanupStaleSessions(MaxTime + 1)

ActivitySpec == ActivityInit /\ [][ActivityNext]_vars

\* ------------------------------------------------------------------ claims
QueueOf(sid) == sessions[sid].round.buzzQueue
alreadyBuzzedIn(queue, playerId) == playerId \in {queue[i].playerId : i \in 1..Len(queue)}
PositionsOneToK(queue) == \A i \in 1..Len(queue) : queue[i].position = i
\* The player a connection resolves to has an entry in its session's queue
HasEntry(k) ==
  LET pd == getPlayerBySocketId(k)
  IN pd.found /\ alreadyBuzzedIn(QueueOf(pd.sessionId), pd.playerId)

\* C1: while no pass, skip or kick has removed an entry since the round state was
\* replaced, the queue holds exactly the accepted buzzes, in the order the server
\* accepted them, with positions 1..k in that order.
C1_AcceptanceOrder ==
  \A sid \in DOMAIN sessions :
    ~removedSince =>
      /\ Len(QueueOf(sid)) = Len(acceptedLog)
      /\ \A i \in 1..Len(acceptedLog) :
           /\ QueueOf(sid)[i].playerId = acceptedLog[i]
           /\ QueueOf(sid)[i].position = i

C1_Witness ==
  /\ ~removedSince
  /\ Len(acceptedLog) = 3
  /\ Len(QueueOf("S1")) = 3

\* C2: in every reachable state no two entries of the buzz queue have the same
\* position.
C2_DistinctPositions ==
  \A sid \in DOMAIN sessions :
    \A i, j \in 1..Len(QueueOf(sid)) :
      i # j => QueueOf(sid)[i].position # QueueOf(sid)[j].position

\* C3: whenever mark-pass, skip or kick removes an entry from the queue, the
\* remaining k entries have positions exactly 1..k in queue order.
C3_RenumberedOnRemoval ==
  [][\A sid \in DOMAIN sessions, p \in PlayerIds :
       ( /\ (markPass(sid) \/ skipPlayer(sid, p) \/ removePlayer(sid, p))
         /\ Len(sessions'[sid].round.buzzQueue) < Len(QueueOf(sid)) )
       => PositionsOneToK(sessions'[sid].round.buzzQueue)]_vars

\* C4: no player has more than one entry in its session's queue; a buzz from a
\* player that has an entry returns DUPLICATE_BUZZ and leaves the queue, the
\* phase and the active player unchanged.
C4_NoDuplicateEntry ==
  /\ [](\A sid \in DOMAIN sessions :
          \A i, j \in 1..Len(QueueOf(sid)) :
            i # j => QueueOf(sid)[i].playerId # QueueOf(sid)[j].playerId)
  /\ [](\A k \in SocketIds, t \in Clock(MaxTime) :
          HasEntry(k) => BuzzResult(k, t) = DUPLICATE_BUZZ)
  /\ [][\A k \in SocketIds, t \in Clock(MaxTime) :
          (HasEntry(k) /\ processBuzz(k, t))
          => \A sid \in DOMAIN sessions : sessions'[sid].round = sessions[sid].round]_vars

C4_Witness ==
  /\ Len(QueueOf("S1")) = 2
  /\ HasEntry("k1") /\ HasEntry("k2")
  /\ sessions["S1"].round.activePlayerId = "p2"

\* Every event the gateway emitted has been handled
Quiescent == \A k \in ClientSockets : inbox[k] = <<>>

PlayerIdsOf(queue) == [i \in 1..Len(queue) |-> queue[i].playerId]

\* C5: once every broadcast event has been handled, each subscribed client that
\* holds a session (late joiners with their snapshot included) has the server's
\* activePlayerId and the server's buzz-queue order.
C5_ReplicasAgree ==
  Quiescent =>
    \A k \in room :
      replica[k] # <<>> =>
        /\ replica[k][1].round.activePlayerId = sessions["S1"].round.activePlayerId
        /\ PlayerIdsOf(replica[k][1].round.buzzQueue) = PlayerIdsOf(QueueOf("S1"))

\* C6: the first accepted buzz of a round moves the phase from open to locked,
\* stamps the lock time and makes the buzzer the active player; every later
\* accepted buzz of the round appends its entry and leaves the phase, the lock
\* time and the active player unchanged.
C6_FirstBuzzLocks ==
  [][\A k \in SocketIds, t \in Clock(MaxTime) :
       (BuzzResult(k, t) = ACCEPTED /\ processBuzz(k, t) /\ now' = t)
       => LET pd == getPlayerBySocketId(k)
              round == sessions[pd.sessionId].round
              after == sessions'[pd.sessionId].round
              first == acceptedLog = <<>> /\ ~removedSince
          IN /\ Len(after.buzzQueue) = Len(round.buzzQueue) + 1
             /\ SubSeq(after.buzzQueue, 1, Len(round.buzzQueue)) = round.buzzQueue
             /\ after.buzzQueue[Len(after.buzzQueue)].playerId = pd.playerId
             /\ IF first
                THEN /\ round.status = "open"
                     /\ after.status = "locked"
                     /\ after.lockedAt = t
                     /\ after.activePlayerId = pd.playerId
                ELSE /\ after.status = round.status
                     /\ after.lockedAt = round.lockedAt
                     /\ after.activePlayerId = round.activePlayerId]_vars

C6_Witness ==
  /\ sessions["S1"].round.status = "locked"
  /\ sessions["S1"].round.lockedAt = 2
  /\ sessions["S1"].round.activePlayerId = "p3"
  /\ acceptedLog = <<"p3", "p1">>

\* C7: mark-pass removes the active player's entry and makes the new queue head
\* the active player; when the removed entry was the last one, the active player
\* becomes null and the phase becomes waiting, otherwise the phase stays locked.
C7_PassAdvances ==
  [][\A sid \in DOMAIN sessions :
       (MarkPassResult(sid) # <<>> /\ markPass(sid))
       => LET round == sessions[sid].round
              after == sessions'[sid].round
          IN /\ ~alreadyBuzzedIn(after.buzzQueue, round.activePlayerId)
             /\ after.activePlayerId = HeadPlayer(after.buzzQueue)
             /\ IF Len(after.buzzQueue) = 0
                THEN after.activePlayerId = NULL /\ after.status = "waiting"
                ELSE after.status = "locked"]_vars

\* C8: mark-correct with an active player appends exactly one RoundResult whose
\* question number is the question counter, whose winner is the active player
\* and whose buzz count is the queue length, and leaves the round ended with an
\* empty queue and no active player; without an active player it returns
\* nothing and changes no state.
C8_MarkCorrect ==
  [][\A sid \in DOMAIN sessions, t \in Clock(MaxTime) :
       (markCorrect(sid, t) /\ now' = t)
       => LET session == sessions[sid]
              after == sessions'[sid]
              n == Len(session.roundHistory)
          IN IF session.round.activePlayerId # NULL
             THEN /\ Len(MarkCorrectResult(sid, t)) = 1
                  /\ Len(after.roundHistory) = n + 1
                  /\ SubSeq(after.roundHistory, 1, n) = session.roundHistory
                  /\ after.roundHistory[n + 1] = MarkCorrectResult(sid, t)[1]
                  /\ after.roundHistory[n + 1].questionNumber = session.round.questionNumber
                  /\ after.roundHistory[n + 1].winnerId = session.round.activePlayerId
                  /\ after.roundHistory[n + 1].buzzCount = Len(session.round.buzzQueue)
                  /\ after.round.status = "ended"
                  /\ after.round.buzzQueue = <<>>
                  /\ after.round.activePlayerId = NULL
                  /\ after.round.questionNumber = session.round.questionNumber
             ELSE /\ MarkCorrectResult(sid, t) = <<>>
                  /\ UNCHANGED serverVars]_vars

C8_Witness ==
  /\ sessions["S1"].round.status = "ended"
  /\ Len(sessions["S1"].roundHistory) = 1
  /\ sessions["S1"].roundHistory[1].winnerId = "p2"
  /\ sessions["S1"].roundHistory[1].buzzCount = 3
  /\ sessions["S1"].roundHistory[1].questionNumber = 1

\* C9: mark-correct with an active player adds exactly 1 to the score of the team
\* that player belongs to, when it has one, and leaves every other team's score
\* (and the list of teams) as it was; with a teamless active player no score
\* changes.
C9_ScoreFrame ==
  [][\A sid \in DOMAIN sessions, t \in Clock(MaxTime) :
       (MarkCorrectResult(sid, t) # <<>> /\ markCorrect(sid, t) /\ now' = t)
       => LET session == sessions[sid]
              active == session.round.activePlayerId
              teamId == IF active \in DOMAIN session.players
                        THEN session.players[active].teamId ELSE NULL
              teams == session.teams
              after == sessions'[sid].teams
          IN /\ Len(after) = Len(teams)
             /\ teamId # NULL => \E i \in 1..Len(teams) : teams[i].id = teamId
             /\ \A i \in 1..Len(teams) :
                  /\ after[i].id = teams[i].id
                  /\ after[i].score =
                       teams[i].score + (IF teams[i].id = teamId THEN 1 ELSE 0)]_vars

C9_Witness ==
  /\ Len(sessions["S1"].roundHistory) = 1
  /\ sessions["S1"].roundHistory[1].teamId = "t2"
  /\ Len(sessions["S1"].teams) = 2
  /\ sessions["S1"].teams[1].score = 0
  /\ sessions["S1"].teams[2].score = 1

\* C10: a buzz that reaches the rate check less than buzzCooldownMs after the
\* player's previous accepted buzz is rejected with RATE_LIMITED, whatever round
\* boundaries lie in between; a buzz at or after the end of that window is not
\* rejected with RATE_LIMITED.
C10_RateLimitWindow ==
  \A k \in SocketIds, t \in Clock(MaxTime) :
    LET pd == getPlayerBySocketId(k) IN
    (pd.found /\ pd.playerId \in DOMAIN lastAcceptedAt)
    => LET session == sessions[pd.sessionId]
           elapsed == t - lastAcceptedAt[pd.playerId]
       IN /\ ( /\ elapsed < session.settings.buzzCooldownMs
               /\ session.round.status \in {"open", "locked"}
               /\ ~alreadyBuzzedIn(session.round.buzzQueue, pd.playerId) )
             => BuzzResult(k, t) = RATE_LIMITED
          /\ elapsed >= session.settings.buzzCooldownMs
             => BuzzResult(k, t) # RATE_LIMITED

\* C11: a buzz attempt that is rejected, whatever the error, leaves the player's
\* rate-limit timestamp as it was, so the window is measured from accepted
\* buzzes only.
C11_RejectedKeepsStamp ==
  [][\A k \in SocketIds, t \in Clock(MaxTime) :
       (BuzzResult(k, t) # ACCEPTED /\ processBuzz(k, t) /\ now' = t)
       => playerBuzzTimestamps' = playerBuzzTimestamps]_vars

C14_BuzzerInactive ==
  /\ [](\A k \in SocketIds, t \in Clock(MaxTime) :
          LET pd == getPlayerBySocketId(k) IN
          (pd.found /\ sessions[pd.sessionId].round.status \notin {"open", "locked"})
          => BuzzResult(k, t) = BUZZER_INACTIVE)
  /\ [][\A k \in SocketIds, t \in Clock(MaxTime) :
          (BuzzResult(k, t) = BUZZER_INACTIVE /\ processBuzz(k, t) /\ now' = t)
          => /\ \A sid \in DOMAIN sessions : sessions'[sid].round = sessions[sid].round
             /\ UNCHANGED serverVars]_vars

C14_Witness ==
  /\ sessions["S1"].round.status = "ended"
  /\ Len(sessions["S1"].roundHistory) = 1
  /\ now = 2
  /\ BuzzResult("k2", now) = BUZZER_INACTIVE

\* C15: skipping a player that is not the active player removes that player's
\* entry only and leaves the phase and the active player unchanged; skipping the
\* active player makes the new queue head active, and when no entry is left
\* the phase becomes waiting with no active player.
C15_SkipFrame ==
  [][\A sid \in DOMAIN sessions, p \in PlayerIds :
       skipPlayer(sid, p)
       => LET round == sessions[sid].round
              after == sessions'[sid].round
          IN /\ PlayerIdsOf(after.buzzQueue)
                  = PlayerIdsOf(RemoveFromQueue(round.buzzQueue, p))
             /\ after.questionNumber = round.questionNumber
             /\ IF round.activePlayerId = p
                THEN /\ after.activePlayerId = HeadPlayer(after.buzzQueue)
                     /\ IF Len(after.buzzQueue) = 0
                        THEN after.activePlayerId = NULL /\ after.status = "waiting"
                        ELSE after.status = round.status
                ELSE /\ after.status = round.status
                     /\ after.activePlayerId = round.activePlayerId]_vars

\* The active player was skipped as the only entry: the round waits again, and
\* nobody was kicked
C15_Witness ==
  /\ sessions["S1"].round.status = "waiting"
  /\ sessions["S1"].round.questionNumber = 1
  /\ removedSince
  /\ DOMAIN sessions["S1"].players = PlayerIds

\* C16: a reset from any phase leaves the round waiting with an empty queue, no
\* active player and no start or lock time, and leaves the question counter,
\* the round history, the players and the teams (with their scores) unchanged.
C16_ResetFrame ==
  [][\A sid \in DOMAIN sessions :
       resetRound(sid)
       => LET session == sessions[sid]
              after == sessions'[sid]
          IN /\ after.round.status = "waiting"
             /\ after.round.buzzQueue = <<>>
             /\ after.round.activePlayerId = NULL
             /\ after.round.startedAt = NoTime
             /\ after.round.lockedAt = NoTime
             /\ after.round.questionNumber = session.round.questionNumber
             /\ after.roundHistory = session.roundHistory
             /\ after.players = session.players
             /\ after.teams = session.teams]_vars

\* A round with a taken buzz was reset
C16_Witness ==
  /\ sessions["S1"].round.status = "waiting"
  /\ sessions["S1"].round.questionNumber = 1
  /\ ~removedSince
  /\ sessions["S1"].roundHistory = <<>>
  /\ DOMAIN lastAcceptedAt = {"p1", "p2"}

\* C17: start-round from any phase, a live open or locked round included,
\* replaces the round: the phase is open, the queue empty, no player active, the
\* start time stamped and the lock time cleared; the buzzes of the replaced
\* round are gone and no RoundResult is recorded for it.
C17_StartOverwrites ==
  [][\A sid \in DOMAIN sessions, t \in Clock(MaxTime) :
       (startRound(sid, t) /\ now' = t)
       => LET session == sessions[sid]
              after == sessions'[sid]
          IN /\ after.round.status = "open"
             /\ after.round.buzzQueue = <<>>
             /\ after.round.activePlayerId = NULL
             /\ after.round.startedAt = t
             /\ after.round.lockedAt = NoTime
             /\ after.roundHistory = session.roundHistory
             /\ after.teams = session.teams]_vars

\* The second round is open, the first one had accepted buzzes and was never
\* marked correct; the first team holds a point the host gave it
C17_Witness ==
  /\ sessions["S1"].round.status = "open"
  /\ sessions["S1"].round.questionNumber = 2
  /\ sessions["S1"].round.startedAt = 2
  /\ sessions["S1"].roundHistory = <<>>
  /\ DOMAIN lastAcceptedAt = {"p1", "p2"}
  /\ lastAcceptedAt["p1"] = 1 /\ lastAcceptedAt["p2"] = 1
  /\ sessions["S1"].teams[1].score = 1

\* C18: the question counter never decreases: a start-round step adds exactly 1
\* to it, and every other step (buzz, mark-correct, mark-pass, skip, reset,
\* kick, join, rejoin, disconnect, team edits) leaves it as it was.
C18_QuestionCounter ==
  [][\A sid \in DOMAIN sessions :
       /\ sid \in DOMAIN sessions'
       /\ LET before == sessions[sid].round.questionNumber
              after == sessions'[sid].round.questionNumber
          IN IF \E t \in Clock(MaxTime) : startRound(sid, t) /\ now' = t
             THEN after = before + 1
             ELSE after = before]_vars

\* A round was started, answered correctly for a team and then reset, in a
\* session that saw a join and a disconnect: the counter still reads 1
C18_Witness ==
  /\ sessions["S1"].round.questionNumber = 1
  /\ sessions["S1"].round.status = "waiting"
  /\ Len(sessions["S1"].roundHistory) = 1
  /\ Len(sessions["S1"].teams) = 1
  /\ sessions["S1"].teams[1].score = 1
  /\ DOMAIN sessions["S1"].players = {"p1", "p2"}
  /\ ~sessions["S1"].players["p1"].isConnected

\* C19: removing a player of the session deletes the player, its queue entry,
\* its session lookup and every connection lookup that leads to it; when it was
\* the active player the new queue head becomes active, or the phase becomes
\* waiting with no active player when no entry is left; otherwise the phase and
\* the active player are unchanged.
C19_RemovePlayer ==
  [][\A sid \in DOMAIN sessions, p \in PlayerIds :
       (p \in DOMAIN sessions[sid].players /\ removePlayer(sid, p))
       => LET round == sessions[sid].round
              after == sessions'[sid].round
          IN /\ p \notin DOMAIN sessions'[sid].players
             /\ p \notin DOMAIN playerToSession'
             /\ \A k \in DOMAIN socketToPlayer' : socketToPlayer'[k] # p
             /\ PlayerIdsOf(after.buzzQueue)
                  = PlayerIdsOf(RemoveFromQueue(round.buzzQueue, p))
             /\ IF round.activePlayerId = p
                THEN /\ after.activePlayerId = HeadPlayer(after.buzzQueue)
                     /\ IF Len(after.buzzQueue) = 0
                        THEN after.activePlayerId = NULL /\ after.status = "waiting"
                        ELSE after.status = round.status
                ELSE /\ after.status = round.status
                     /\ after.activePlayerId = round.activePlayerId]_vars

\* p1 was removed while active, p2 took over the buzzer
C19_Witness ==
  /\ DOMAIN sessions["S1"].players = {"p2"}
  /\ "p1" \in DOMAIN lastAcceptedAt
  /\ removedSince
  /\ sessions["S1"].round.status = "locked"
  /\ sessions["S1"].round.activePlayerId = "p2"
  /\ PlayerIdsOf(QueueOf("S1")) = <<"p2">>

\* C20: rejoin with the id of a player of the session, from any connection,
\* keeps the player's id, display name and team, marks it connected, binds it
\* to that connection, and leaves the round (queue with its positions, active
\* player, phase) untouched.
C20_RejoinFrame ==
  [][\A sid \in DOMAIN sessions, p \in PlayerIds, k \in SocketIds, t \in Clock(MaxTime) :
       (p \in DOMAIN sessions[sid].players /\ rejoinPlayer(sid, p, k, t) /\ now' = t)
       => LET player == sessions[sid].players[p]
              after == sessions'[sid].players[p]
          IN /\ DOMAIN sessions'[sid].players = DOMAIN sessions[sid].players
             /\ after.id = player.id
             /\ after.displayName = player.displayName
             /\ after.teamId = player.teamId
             /\ after.isConnected
             /\ after.socketId = k
             /\ k \in DOMAIN socketToPlayer' /\ socketToPlayer'[k] = p
             /\ sessions'[sid].round = sessions[sid].round
             /\ sessions'[sid].teams = sessions[sid].teams]_vars

\* p1 and p2 are queued in that order, and p1 has since come back on the
\* connection p2 had joined with
C20_Witness ==
  /\ PlayerIdsOf(QueueOf("S1")) = <<"p1", "p2">>
  /\ sessions["S1"].round.activePlayerId = "p1"
  /\ sessions["S1"].players["p2"].socketId = "k9"
  /\ sessions["S1"].players["p1"].socketId = "k9"
  /\ sessions["S1"].players["p1"].isConnected
  /\ socketToPlayer = [k \in {"k9"} |-> "p1"]


\* C22: a disconnect of a connection marks the player the connection resolves
\* to as not connected (and stamps its last-seen time) and changes nothing
\* else: the player stays in the directory with its id, name, connection
\* reference and team, the other players, the teams, the round (queue entries
\* with their positions, active player, phase), the history and every lookup
\* are as before; a connection that resolves to no player changes nothing.
C22_DisconnectFrame ==
  [][\A k \in SocketIds, t \in Clock(MaxTime) :
       (disconnectPlayer(k, t) /\ now' = t)
       => LET pd == getPlayerBySocketId(k) IN
          IF ~pd.found
          THEN /\ sessions' = sessions
               /\ socketToPlayer' = socketToPlayer
               /\ playerToSession' = playerToSession
          ELSE LET session == sessions[pd.sessionId]
                   after == sessions'[pd.sessionId]
                   player == session.players[pd.playerId]
               IN /\ DOMAIN sessions' = DOMAIN sessions
                  /\ \A sid \in DOMAIN sessions \ {pd.sessionId} :
                       sessions'[sid] = sessions[sid]
                  /\ DOMAIN after.players = DOMAIN session.players
                  /\ ~after.players[pd.playerId].isConnected
                  /\ after.players[pd.playerId] =
                       [player EXCEPT !.isConnected = FALSE, !.lastSeen = t]
                  /\ \A q \in DOMAIN session.players \ {pd.playerId} :
                       after.players[q] = session.players[q]
                  /\ after.round = session.round
                  /\ after.teams = session.teams
                  /\ after.roundHistory = session.roundHistory
                  /\ after.settings = session.settings
                  /\ socketToPlayer' = socketToPlayer
                  /\ playerToSession' = playerToSession]_vars

\* p1 is the active player with p2 queued behind it, p1 sits in a team, and
\* p1's connection has been lost
C22_Witness ==
  /\ PlayerIdsOf(QueueOf("S1")) = <<"p1", "p2">>
  /\ sessions["S1"].round.activePlayerId = "p1"
  /\ sessions["S1"].round.status = "locked"
  /\ sessions["S1"].players["p1"].teamId = "t1"
  /\ ~sessions["S1"].players["p1"].isConnected
  /\ sessions["S1"].players["p2"].isConnected

\* The ids of the teams of a session
TeamIdsOf(teams) == {teams[i].id : i \in 1..Len(teams)}

\* C26: in every reachable state every player's teamId is null or the id of a
\* team of the player's session; assignPlayerToTeam with the id of no team of
\* the session changes nothing, and removeTeam of an existing team takes the
\* team out and leaves none of the players with its id.
C26_TeamIdsExist ==
  /\ [](\A sid \in DOMAIN sessions : \A p \in DOMAIN sessions[sid].players :
          \/ sessions[sid].players[p].teamId = NULL
          \/ sessions[sid].players[p].teamId \in TeamIdsOf(sessions[sid].teams))
  /\ [][\A sid \in DOMAIN sessions, p \in PlayerIds, team \in TeamIds :
          /\ (/\ team \notin TeamIdsOf(sessions[sid].teams)
              /\ assignPlayerToTeam(sid, p, team))
             => /\ sessions' = sessions
                /\ playerToSession' = playerToSession
                /\ socketToPlayer' = socketToPlayer
          /\ (/\ team \in TeamIdsOf(sessions[sid].teams)
              /\ removeTeam(sid, team))
             => /\ team \notin TeamIdsOf(sessions'[sid].teams)
                /\ DOMAIN sessions'[sid].players = DOMAIN sessions[sid].players
                /\ \A q \in DOMAIN sessions[sid].players :
                     sessions'[sid].players[q].teamId =
                       IF sessions[sid].players[q].teamId = team THEN NULL
                       ELSE sessions[sid].players[q].teamId]_vars

\* p1 won a round as a member of team t1, the host has since removed the team:
\* the session has no team and neither p1 nor the later joiner p2 is in one
C26_Witness ==
  /\ sessions["S1"].teams = <<>>
  /\ DOMAIN sessions["S1"].players = {"p1", "p2"}
  /\ sessions["S1"].players["p1"].teamId = NULL
  /\ sessions["S1"].players["p2"].teamId = NULL
  /\ Len(sessions["S1"].roundHistory) = 1
  /\ sessions["S1"].roundHistory[1].winnerId = "p1"
  /\ sessions["S1"].roundHistory[1].teamId = "t1"


\* The connected players of a session
ConnectedPlayers(sid) ==
  {p \in DOMAIN sessions[sid].players : sessions[sid].players[p].isConnected}

\* Some player of the session with this connection state bears the name,
\* compared case-insensitively
NameBorneBy(sid, name, connected) ==
  \E q \in DOMAIN sessions[sid].players :
    /\ sessions[sid].players[q].isConnected = connected
    /\ LowerCase(sessions[sid].players[q].displayName) = LowerCase(name)

C24_CapacityCountsConnected ==
  /\ [](\A sid \in DOMAIN sessions, name \in JoinNames :
          (AddPlayerError(sid, name) = SESSION_FULL)
          <=> (Cardinality(ConnectedPlayers(sid))
                 >= sessions[sid].settings.maxPlayersPerSession))
  /\ [][\A sid \in DOMAIN sessions, k \in SessionSockets, p \in PlayerIds,
           name \in JoinNames, t \in Clock(MaxTime) :
          (/\ AddPlayerError(sid, name) # NULL
           /\ addPlayer(sid, k, name, p, t) /\ now' = t)
          => /\ sessions' = sessions
             /\ playerToSession' = playerToSession
             /\ socketToPlayer' = socketToPlayer]_vars

\* C25: the stored display names of the connected players of a session are
\* pairwise different when compared case-insensitively.
C25_ConnectedNamesUnique ==
  \A sid \in DOMAIN sessions : \A p, q \in ConnectedPlayers(sid) :
    p # q => LowerCase(sessions[sid].players[p].displayName)
               # LowerCase(sessions[sid].players[q].displayName)

\* The player id is unknown to the session with this code: the session is not
\* live, or it is and has no such player
UnknownToSession(sid, p) ==
  sid \notin DOMAIN sessions \/ p \notin DOMAIN sessions[sid].players

\* C21 as stated: rejoin with a playerId unknown to the session (never existed,
\* was kicked, or the session was ended or swept) fails with the
\* player-not-found outcome and changes no state.
C21_RejoinUnknownPlayer ==
  /\ [](\A sid \in SessionCodes, p \in RegistryPlayers :
          UnknownToSession(sid, p) => RejoinError(sid, p) = PLAYER_NOT_IN_SESSION)
  /\ [][\A sid \in SessionCodes, p \in RegistryPlayers, k \in SessionSockets,
           t \in Clock(MaxTime) :
          (UnknownToSession(sid, p) /\ rejoinPlayer(sid, p, k, t) /\ now' = t)
          => UNCHANGED serverVars]_vars

\* C21 amended: rejoin with a playerId unknown to the session fails and changes
\* no state (no player becomes connected, no lookup is added or removed); the
\* outcome is player-not-found when the session is live and session-not-found
\* when the session was ended or swept.
C21_RejoinUnknownFails ==
  /\ [](\A sid \in SessionCodes, p \in RegistryPlayers :
          UnknownToSession(sid, p)
          => RejoinError(sid, p) = IF sid \in DOMAIN sessions
                                   THEN PLAYER_NOT_IN_SESSION ELSE SESSION_NOT_FOUND)
  /\ [][\A sid \in SessionCodes, p \in RegistryPlayers, k \in SessionSockets,
           t \in Clock(MaxTime) :
          (UnknownToSession(sid, p) /\ rejoinPlayer(sid, p, k, t) /\ now' = t)
          => /\ sessions' = sessions
             /\ socketToPlayer' = socketToPlayer
             /\ playerToSession' = playerToSession]_vars

\* S1 has left the registry and with it p1; S2 is live, p2 has joined it and
\* has been kicked from it; time has passed since
C21_Witness ==
  /\ DOMAIN sessions = {"S2"}
  /\ DOMAIN sessions["S2"].players = {}
  /\ DOMAIN playerToSession = {}
  /\ DOMAIN socketToPlayer = {}
  /\ now = MaxTime

\* C27: createSession returns a code that no live session has: the sessions
\* that were live before the call are all live after it, and unaltered.
C27_FreshCode ==
  [][\A code \in SessionCodes, t \in Clock(MaxTime) :
       (createSession(HostSocket, [buzzCooldownMs |-> 0], code, t) /\ now' = t)
       => /\ code \notin DOMAIN sessions
          /\ \A sid \in DOMAIN sessions :
               sid \in DOMAIN sessions' /\ sessions'[sid] = sessions[sid]]_vars

\* C28: when a session leaves the registry, by endSession or by the sweep,
\* none of its players keeps a session lookup, no connection lookup leads to
\* one of them, no connection resolves to one of them, and a buzz from the
\* connection of any of them returns 'Player not found'.
C28_EndReleasesLookups ==
  [][\A sid \in DOMAIN sessions :
       sid \notin DOMAIN sessions'
       => \A p \in DOMAIN sessions[sid].players :
            /\ p \notin DOMAIN playerToSession'
            /\ \A k \in DOMAIN socketToPlayer' : socketToPlayer'[k] # p
            /\ \A k \in SocketIds :
                 getPlayerBySocketId(k)'.found => getPlayerBySocketId(k)'.playerId # p
            /\ \A k \in SocketIds, t \in 1..MaxTime :
                 k = sessions[sid].players[p].socketId
                 => BuzzResult(k, t)' = PLAYER_NOT_FOUND]_vars

\* S1 has left the registry while p1 was in it and p2, on the other
\* connection, was in S2: p2 still resolves, p1's connection does not
C28_Witness ==
  /\ DOMAIN sessions = {"S2"}
  /\ DOMAIN sessions["S2"].players = {"p2"}
  /\ DOMAIN playerToSession = {"p2"}
  /\ getPlayerBySocketId("k9").found
  /\ BuzzResult("k1", now) = PLAYER_NOT_FOUND
  /\ BuzzResult("k9", now) = BUZZER_INACTIVE

\* C29: a sweep with threshold maxAgeMs at time t ends a session if and only
\* if t minus the latest of its creation time and its players' last-seen times
\* is strictly greater than maxAgeMs: the session's creation and every
\* last-seen time are more than maxAgeMs in the past; a session whose last
\* activity is exactly maxAgeMs in the past is retained.
C29_SweepBoundary ==
  [][\A maxAgeMs \in MaxAges, t \in Clock(MaxTime) :
       (cleanupStaleSessions(maxAgeMs, t) /\ now' = t)
       => \A sid \in DOMAIN sessions :
            LET session == sessions[sid] IN
            /\ (sid \notin DOMAIN sessions')
               <=> (/\ t - session.createdAt > maxAgeMs
                    /\ \A p \in DOMAIN session.players :
                         t - session.players[p].lastSeen > maxAgeMs)
            /\ (\E x \in {session.createdAt}
                           \cup {session.players[p].lastSeen : p \in DOMAIN session.players} :
                  t - x = maxAgeMs)
               => sid \in DOMAIN sessions' /\ sessions'[sid] = session]_vars

\* The sweep with threshold 0 at time 2 has ended S2, created at time 1 and
\* never joined, and has retained S1, created at time 1 too, whose player was
\* last seen at time 2
C29_Witness ==
  /\ DOMAIN sessions = {"S1"}
  /\ sessions["S1"].createdAt = 1
  /\ DOMAIN sessions["S1"].players = {"p1"}
  /\ sessions["S1"].players["p1"].lastSeen = 2
  /\ now = 2

\* A host action arrives on this connection
HostActionFrom(socket) ==
  \/ StartRoundFrom(socket)
  \/ MarkCorrectFrom(socket)
  \/ MarkPassFrom(socket)
  \/ SkipPlayerFrom(socket)
  \/ ResetRoundFrom(socket)
  \/ EndSessionFrom(socket)
  \/ AddTeamFrom(socket)
  \/ RemoveTeamFrom(socket)
  \/ AssignPlayerToTeamFrom(socket)
  \/ UpdateTeamScoreFrom(socket)
  \/ KickPlayerFrom(socket)
  \/ UpdateSettingsFrom(socket)

\* C30: a host action (start round, mark correct, mark pass, skip, reset, end
\* session, team edits, score update, kick, settings update) that arrives on a
\* connection changes or ends only a session whose recorded host reference is
\* that connection; arriving on any other connection, a player's included, it
\* changes no session.
C30_HostOnly ==
  [][\A socket \in HostSockets :
       HostActionFrom(socket)
       => \A sid \in DOMAIN sessions :
            (sid \notin DOMAIN sessions' \/ sessions'[sid] # sessions[sid])
            => sessions[sid].hostSocketId = socket]_vars

\* k1, the connection of a player of S1 and the host of S2, has started a round
\* and added a team: both are in S2, while S1 was ended from h1
C30_Witness ==
  /\ DOMAIN sessions = {"S2"}
  /\ sessions["S2"].round.status = "open"
  /\ sessions["S2"].round.questionNumber = 1
  /\ Len(sessions["S2"].teams) = 1
  /\ sessions["S2"].teams[1].score = 1
  /\ ~sessions["S2"].settings.allowLateBuzzes

\* session:error { code: 'NOT_HOST', message: 'Not a host' }
NotHostError == Event("session:error", [code |-> "NOT_HOST", message |-> "Not a host"])

\* C31: every rejection other than a buzz rejection is surfaced to the
\* connection it came from and to no other: a host action (settings update,
\* start round, reset, mark correct, mark pass, skip, kick) from a connection
\* that hosts no session appends a NOT_HOST error to that connection's events
\* and nothing to any other's, a refused join appends a JOIN_FAILED error with
\* the reason to the joining connection only, and a rejected buzz sends nothing
\* to anyone.
C31_RejectionsSurfaced ==
  \A k \in ClientSockets :
    /\ getSessionByHostSocket(k) = <<>>
       => /\ ENABLED (/\ OnHostUpdateSettings(k, [allowLateBuzzes |-> FALSE])
                      /\ UNCHANGED now
                      /\ inbox' = Emit(inbox, {k}, <<NotHostError>>))
          /\ ENABLED (/\ OnHostStartRound(k, now) /\ UNCHANGED now
                      /\ inbox' = Emit(inbox, {k}, <<NotHostError>>))
          /\ ENABLED (/\ OnHostResetRound(k) /\ UNCHANGED now
                      /\ inbox' = Emit(inbox, {k}, <<NotHostError>>))
          /\ ENABLED (/\ OnHostMarkCorrect(k, now) /\ UNCHANGED now
                      /\ inbox' = Emit(inbox, {k}, <<NotHostError>>))
          /\ ENABLED (/\ OnHostMarkPass(k) /\ UNCHANGED now
                      /\ inbox' = Emit(inbox, {k}, <<NotHostError>>))
          /\ \A p \in GatewayPlayers \cup LateJoiners :
               /\ ENABLED (/\ OnHostSkipPlayer(k, p) /\ UNCHANGED now
                           /\ inbox' = Emit(inbox, {k}, <<NotHostError>>))
               /\ ENABLED (/\ OnHostKickPlayer(k, p) /\ UNCHANGED now
                           /\ inbox' = Emit(inbox, {k}, <<NotHostError>>))
    /\ \A p \in LateJoiners, name \in {" Bob ", "ann"} :
         AddPlayerError("S1", name) # NULL
         => ENABLED (/\ OnPlayerJoin(k, "S1", name, p, now) /\ UNCHANGED now
                     /\ inbox' = Emit(inbox, {k},
                                      <<Event("session:error",
                                              [code |-> "JOIN_FAILED",
                                               message |-> AddPlayerError("S1", name)])>>))
    /\ BuzzResult(k, now) # ACCEPTED
       => ENABLED (OnPlayerBuzz(k, now) /\ UNCHANGED now /\ inbox' = inbox)

\* C32: the serialized form of every live session holds no connection
\* reference, neither the host's (hostSocketId) nor a player's (socketId), and
\* its player directory is a list that holds every player of the session once.
C32_NoConnectionReference ==
  \A sid \in DOMAIN sessions :
    LET sent == serializeSession(sessions[sid]) IN
    /\ "hostSocketId" \notin DOMAIN sent
    /\ \A i \in 1..Len(sent.players) : "socketId" \notin DOMAIN sent.players[i]
    /\ Len(sent.players) = Cardinality(DOMAIN sessions[sid].players)
    /\ {sent.players[i].id : i \in 1..Len(sent.players)} = DOMAIN sessions[sid].players

\* The player has an entry in the queue of this round
Queued(playerId, round) ==
  \E i \in 1..Len(round.buzzQueue) : round.buzzQueue[i].playerId = playerId

\* C33: for every player and every RoundState a page holds, getPlayerStatus is
\* one of waiting, ready, active, queued: waiting when the phase is waiting or
\* ended; otherwise active when the player is the active player; otherwise
\* queued when the player has a queue entry; otherwise ready exactly when the
\* phase is open; otherwise waiting.
C33_PlayerStatus ==
  \A k \in ClientSockets, p \in StatusPlayers \cup {"p3"} :
    replica[k] # <<>>
    => LET round == replica[k][1].round
           status == getPlayerStatus(p, round)
           idle == round.status \in {"waiting", "ended"}
           active == round.activePlayerId = p
       IN /\ status \in {"waiting", "ready", "active", "queued"}
          /\ idle => status = "waiting"
          /\ (~idle /\ active) => status = "active"
          /\ (~idle /\ ~active /\ Queued(p, round)) => status = "queued"
          /\ (~idle /\ ~active /\ ~Queued(p, round))
             => /\ (status = "ready") <=> (round.status = "open")
                /\ (status = "waiting") <=> (round.status # "open")

\* The page of p2 held an open round with p2 queued and nobody active; p1, ready
\* on its own page, has buzzed and the page of p2 has received the buzz: both
\* are queued on it and p3 is ready
C33_Witness ==
  /\ replica["k2"] # <<>>
  /\ replica["k2"][1].round.status = "open"
  /\ replica["k2"][1].round.activePlayerId = NULL
  /\ Len(replica["k2"][1].round.buzzQueue) = 2
  /\ getPlayerStatus("p1", replica["k2"][1].round) = "queued"
  /\ getPlayerStatus("p2", replica["k2"][1].round) = "queued"
  /\ getPlayerStatus("p3", replica["k2"][1].round) = "ready"
  /\ Len(QueueOf("S1")) = 1

\* C34: the round history of a session is append-only: a step lengthens it by
\* at most one entry, the entries it had stay in place unaltered, a step that
\* lengthens it is a markCorrect of that session, and a markCorrect with an
\* active player appends exactly its RoundResult; start-round, reset, the kick
\* of a winner and the removal of a winner's team leave the history as it is.
C34_HistoryAppendOnly ==
  [][\A sid \in DOMAIN sessions :
       sid \in DOMAIN sessions'
       => LET before == sessions[sid].roundHistory
              after == sessions'[sid].roundHistory
          IN /\ Len(before) <= Len(after) /\ Len(after) <= Len(before) + 1
             /\ SubSeq(after, 1, Len(before)) = before
             /\ Len(after) = Len(before) + 1
                => \E t \in 1..MaxTime : markCorrect(sid, t) /\ now' = t
             /\ \A t \in 1..MaxTime :
                  (MarkCorrectResult(sid, t) # <<>> /\ markCorrect(sid, t) /\ now' = t)
                  => after = Append(before, NewRoundResult(sessions[sid], t))
             /\ \A t \in 1..MaxTime, p \in PlayerIds, team \in TeamIds :
                  (\/ startRound(sid, t) /\ now' = t
                   \/ resetRound(sid) /\ now' = t
                   \/ removePlayer(sid, p) /\ now' = t
                   \/ removeTeam(sid, team) /\ now' = t)
                  => after = before]_vars

\* Two rounds were won: the first by p1 for team t1, the second by p2; p1 has
\* been kicked and t1 removed since, and both results are in the history
C34_Witness ==
  /\ Len(sessions["S1"].roundHistory) = 2
  /\ sessions["S1"].roundHistory[1].questionNumber = 1
  /\ sessions["S1"].roundHistory[1].winnerId = "p1"
  /\ sessions["S1"].roundHistory[1].teamId = "t1"
  /\ sessions["S1"].roundHistory[2].questionNumber = 2
  /\ sessions["S1"].roundHistory[2].winnerId = "p2"
  /\ "p1" \notin DOMAIN sessions["S1"].players
  /\ TeamIndex(sessions["S1"].teams, "t1") = 0

\* C35: in every state the active player of a session is the head of its buzz
\* queue: activePlayerId is null exactly when the queue is empty, and is the
\* playerId of the first entry otherwise.
C35_ActiveIsHead ==
  \A sid \in DOMAIN sessions :
    sessions[sid].round.activePlayerId = HeadPlayer(sessions[sid].round.buzzQueue)

\* C36: every player of a live session that is marked connected is resolved by
\* its own connection: the connection lookup maps the player's socketId to the
\* player and getPlayerBySocketId finds it there; and a disconnect of a
\* connection marks the players bound to that connection, and only them, not
\* connected.
C36_ConnectedResolvable ==
  /\ [](\A sid \in DOMAIN sessions : \A p \in ConnectedPlayers(sid) :
          LET k == sessions[sid].players[p].socketId IN
          /\ k \in DOMAIN socketToPlayer
          /\ socketToPlayer[k] = p
          /\ getPlayerBySocketId(k).found
          /\ getPlayerBySocketId(k).playerId = p
          /\ getPlayerBySocketId(k).sessionId = sid)
  /\ [][\A k \in SessionSockets, t \in Clock(MaxTime) :
          (disconnectPlayer(k, t) /\ now' = t)
          => \A sid \in DOMAIN sessions : \A p \in DOMAIN sessions[sid].players :
               sessions'[sid].players[p].isConnected
                 = (sessions[sid].players[p].isConnected
                    /\ sessions[sid].players[p].socketId # k)]_vars

\* C37: a connection other than the one a player is bound to never resolves to
\* that player, so the disconnect of a player's previous connection, handled
\* after its rejoin, changes nothing; and a rejoin on a new connection leaves
\* the player connected, bound to the new connection and to nothing else, with
\* a record that does not depend on whether the player was connected before:
\* rejoin then disconnect and disconnect then rejoin end in the same state.
C37_RejoinDisconnectOrder ==
  /\ [](\A k \in DOMAIN socketToPlayer, sid \in DOMAIN sessions :
          socketToPlayer[k] \in DOMAIN sessions[sid].players
          => sessions[sid].players[socketToPlayer[k]].socketId = k)
  /\ [][\A sid \in DOMAIN sessions, p \in SessionPlayers \cup SessionJoiners,
           k \in SessionSockets, old \in SessionSockets, t \in Clock(MaxTime) :
          (/\ p \in DOMAIN sessions[sid].players
           /\ sessions[sid].players[p].socketId = old
           /\ old # k
           /\ rejoinPlayer(sid, p, k, t) /\ now' = t)
          => /\ sessions' =
                  [sessions EXCEPT ![sid].players[p] =
                     [id |-> p, socketId |-> k,
                      displayName |-> sessions[sid].players[p].displayName,
                      teamId |-> sessions[sid].players[p].teamId,
                      isConnected |-> TRUE, lastSeen |-> t]]
             /\ socketToPlayer'[k] = p
             /\ \A o \in DOMAIN socketToPlayer' : socketToPlayer'[o] = p => o = k
             /\ ~getPlayerBySocketId(old)'.found
             /\ playerToSession' = playerToSession]_vars

\* p1, that joined on k1, has rejoined on k9: the state both orders of the
\* rejoin and of the disconnect of k1 end in
C37_Witness ==
  /\ "p1" \in DOMAIN sessions["S1"].players
  /\ sessions["S1"].players["p1"].socketId = "k9"
  /\ sessions["S1"].players["p1"].isConnected
  /\ DOMAIN socketToPlayer = {"k9"}
  /\ socketToPlayer["k9"] = "p1"
  /\ ~getPlayerBySocketId("k1").found

\* C38: ending session A, or removing a player through session A, changes no
\* other live session B: B stays live with its players and its round as they
\* were, and every connection that resolved to a player of B resolves to it
\* still.
C38_OtherSessionsUntouched ==
  [][\A a \in DOMAIN sessions :
       (endSession(a) \/ \E p \in PlayerIds : removePlayer(a, p))
       => \A b \in DOMAIN sessions \ {a} :
            /\ b \in DOMAIN sessions'
            /\ sessions'[b] = sessions[b]
            /\ \A k \in SocketIds :
                 (getPlayerBySocketId(k).found /\ getPlayerBySocketId(k).sessionId = b)
                 => getPlayerBySocketId(k)' = getPlayerBySocketId(k)]_vars

\* C39: for every live session, a host action (start round, reset, settings
\* update, add team, end session) that arrives on the connection recorded as
\* its hostSocketId is applied to that session.
C39_HostReachesItsSession ==
  \A sid \in DOMAIN sessions :
    LET socket == sessions[sid].hostSocketId IN
    /\ ENABLED (/\ OnHostStartRound(socket, now) /\ UNCHANGED now
                /\ sessions'[sid].round = StartedRound(sessions[sid].round, now))
    /\ ENABLED (/\ OnHostResetRound(socket) /\ UNCHANGED now
                /\ sessions'[sid].round = ResetRoundState(sessions[sid].round))
    /\ ENABLED (/\ OnHostUpdateSettings(socket, [allowLateBuzzes |-> FALSE])
                /\ UNCHANGED now
                /\ ~sessions'[sid].settings.allowLateBuzzes)
    /\ ENABLED (/\ OnHostAddTeam(socket, " Red ", "t9") /\ UNCHANGED now
                /\ Len(sessions'[sid].teams) = Len(sessions[sid].teams) + 1)
    /\ ENABLED (/\ OnHostEndSession(socket) /\ UNCHANGED now
                /\ sid \notin DOMAIN sessions')

\* C40: the sweep with threshold maxAgeMs never ends a session in which a
\* player had activity within the last maxAgeMs: a session one of whose players
\* joined or was last seen at most maxAgeMs ago, or had a buzz accepted less
\* than maxAgeMs ago, is live after the sweep.
C40_SweepKeepsActiveSessions ==
  [][\A maxAgeMs \in MaxAges, t \in 1..(MaxTime + 1) :
       (cleanupStaleSessions(maxAgeMs, t) /\ now' = t)
       => \A sid \in DOMAIN sessions :
            (\E p \in DOMAIN sessions[sid].players :
               \/ t - sessions[sid].players[p].lastSeen <= maxAgeMs
               \/ p \in DOMAIN lastAcceptedAt /\ t - lastAcceptedAt[p] < maxAgeMs)
            => sid \in DOMAIN sessions']_vars
====
